---- MODULE Spec2Model ----
(***************************************************************************)
(* A model of yak-box: the persona allocator, the session registry, the    *)
(* spawn and stop orchestrators and the process-tree terminator.           *)
(*                                                                         *)
(* Text is modelled as sequences of one-character strings, files as        *)
(* records that say what is on disk, and every CLI command as one action.  *)
(***************************************************************************)
EXTENDS Integers, Sequences, FiniteSets, TLC

VARIABLES
    cursorFile,    \* .yak-boxes/.last-persona: Absent or its text
    managed,       \* whether sessions.GetYakBoxesDir() succeeds (git root found)
    picks,         \* the personas pickWorkerName has returned, in order
    startCursor,   \* cursorFile as it was before the first call
    sessionsFile,  \* .yak-boxes/sessions.json: what is on disk
    regLast,       \* the last registry call and what it returned
    expect,        \* per session id: what the last successful Register/Unregister left
    pidFile,       \* the PID file KillNativeProcessTree is given: Absent or its text
    proc,          \* the process the PID file names
    clock,         \* time, in ticks of 50 ms
    kill,          \* the KillNativeProcessTree call: where it is and what it has seen
    signals,       \* the TERM and KILL signals sent so far
    homes,         \* the personas whose home directory exists under .yak-boxes
    assigned,      \* per task directory: its assigned-to file, Absent or its text
    containers,    \* the names of the containers the engine holds
    tabs,          \* the names of the open multiplexer tabs
    pidFiles,      \* per persona: the PID in <home>/scripts/worker.pid, 0 when no file
    procs,         \* the PIDs of the native workers that are running
    cmds,          \* how many spawn and stop commands have run
    last,          \* the last command: its arguments and what it did
    prev,          \* the command before the last
    racers,        \* per concurrent registry call: where it is and what it holds
    lastWriter,    \* the concurrent call that wrote sessions.json last, 0 if none
    lookups,       \* how many calls of the lookup functions have run
    looked,        \* the last call of a lookup function: its arguments and result
    pickers,       \* per concurrent pickWorkerName call: where it is and what it read
    waiter,        \* the run of the wait script: its loop counter and where it is
    engine,        \* the container the wait script waits for: its status
    tabList,       \* the names of the multiplexer tabs, in tab order
    focus,         \* the index of the focused tab, 0 when there is none
    closer         \* the StopNativeWorker call: where it is and what it closed

vars == <<cursorFile, managed, picks, startCursor, sessionsFile, regLast, expect,
          pidFile, proc, clock, kill, signals,
          homes, assigned, containers, tabs, pidFiles, procs, cmds, last, prev,
          racers, lastWriter, lookups, looked,
          pickers, waiter, engine, tabList, focus, closer>>

personaVars == <<cursorFile, managed, picks, startCursor>>
registryVars == <<sessionsFile, regLast, expect>>
killVars == <<pidFile, proc, clock, kill, signals>>
worldVars == <<homes, assigned, containers, tabs, pidFiles, procs>>
commandVars == <<cmds, last, prev>>
raceVars == <<racers, lastWriter>>
lookupVars == <<lookups, looked>>
waitVars == <<waiter, engine>>
tabVars == <<tabList, focus, closer>>
sideVars == <<pickers, waitVars, tabVars>>

-----------------------------------------------------------------------------
(* Bounds of the model *)

\* calls of the allocator in a managed workspace (two rounds of the list)
MaxCalls == 8
\* calls of the allocator outside a managed workspace (random fallback)
MaxRandomCalls == 3
\* session ids the registry is exercised with
NumIds == 2
\* the longest --timeout given to the terminator, in ticks
MaxTimeout == 3
\* how far the clock runs, in ticks
MaxClock == 7
\* spawn and stop commands in one run
MaxCmds == 2
\* registry calls that run concurrently
NumRacers == 2
\* calls of the lookup functions in one run
MaxLookups == 2
\* spawn commands that run the persona allocator concurrently
NumPickers == 2
\* multiplexer tabs open at once
MaxTabs == 3

-----------------------------------------------------------------------------
(* Text helpers *)

Absent == [kind |-> "absent"]
Text(t) == [kind |-> "text", text |-> t]

Digits == <<"0", "1", "2", "3", "4", "5", "6", "7", "8", "9">>

IsDigit(c) == \E i \in 1..10 : Digits[i] = c
DigitVal(c) == (CHOOSE i \in 1..10 : Digits[i] = c) - 1

IsSpace(c) == c \in {" ", "\n", "\t"}

RECURSIVE TrimLeft(_)
TrimLeft(t) ==
    IF t # <<>> /\ IsSpace(Head(t)) THEN TrimLeft(Tail(t)) ELSE t

RECURSIVE TrimRight(_)
TrimRight(t) ==
    IF t # <<>> /\ IsSpace(t[Len(t)]) THEN TrimRight(SubSeq(t, 1, Len(t) - 1)) ELSE t

\* strings.TrimSpace
TrimSpace(t) == TrimRight(TrimLeft(t))

RECURSIVE DigitsValue(_)
DigitsValue(t) ==
    IF t = <<>> THEN 0
    ELSE 10 * DigitsValue(SubSeq(t, 1, Len(t) - 1)) + DigitVal(t[Len(t)])

\* strconv.Atoi with the error dropped (idx, _ = strconv.Atoi(...)): an optional
\* sign and decimal digits give the number, anything else gives 0.
Atoi(t) ==
    LET signed == t # <<>> /\ Head(t) \in {"-", "+"}
        body == IF signed THEN Tail(t) ELSE t
        wellFormed == body # <<>> /\ \A i \in 1..Len(body) : IsDigit(body[i])
    IN  IF ~wellFormed THEN 0
        ELSE IF signed /\ Head(t) = "-" THEN 0 - DigitsValue(body)
        ELSE DigitsValue(body)

\* whether strconv.Atoi returns a nil error
AtoiOk(t) ==
    LET signed == t # <<>> /\ Head(t) \in {"-", "+"}
        body == IF signed THEN Tail(t) ELSE t
    IN  body # <<>> /\ \A i \in 1..Len(body) : IsDigit(body[i])

RECURSIVE ItoaNat(_)
ItoaNat(n) ==
    IF n < 10 THEN <<Digits[n + 1]>>
    ELSE ItoaNat(n \div 10) \o <<Digits[(n % 10) + 1]>>

\* strconv.Itoa
Itoa(n) == IF n < 0 THEN <<"-">> \o ItoaNat(0 - n) ELSE ItoaNat(n)

-----------------------------------------------------------------------------
(* Persona allocator: cmd/spawn.go pickWorkerName *)

WorkerNames == <<"Yakriel", "Yakueline", "Yakov", "Yakira">>

N == Len(WorkerNames)

CursorIndexBad(file) ==
    IF file.kind = "absent" THEN 0
    ELSE LET idx == Atoi(TrimSpace(file.text))
         IN  IF idx < 0 THEN 0 ELSE IF idx >= N THEN N - 1 ELSE idx

\* the index pickWorkerName reads from the cursor file (0-based)
CursorIndex(file) ==
    IF file.kind = "absent" THEN 0
    ELSE LET idx == Atoi(TrimSpace(file.text))
         IN  IF idx < 0 \/ idx >= N THEN 0 ELSE idx

NextCursorBad(idx) == (idx + 2) % N

\* next := (idx + 1) % n
NextCursor(idx) == (idx + 1) % N

\* the contents the cursor file may have when a workspace is first used
CursorStarts ==
    {Absent} \cup
    {Text(t) : t \in {<<"0">>, <<"2">>, <<"3">>, <<"4">>, <<"-", "1">>, <<"x">>,
                      <<" ", "1", "\n">>, <<"1", "2">>, <<>>}}

InitPersona ==
    /\ cursorFile \in CursorStarts
    /\ managed \in BOOLEAN
    /\ (~managed => cursorFile = Absent)
    /\ startCursor = cursorFile
    /\ picks = <<>>

\* pickWorkerName in a managed workspace: round robin over the persisted cursor
PickRoundRobin ==
    /\ managed
    /\ Len(picks) < MaxCalls
    /\ LET idx == CursorIndex(cursorFile)
       IN  /\ cursorFile' = Text(Itoa(NextCursor(idx)))
           /\ picks' = Append(picks, WorkerNames[idx + 1])
    /\ UNCHANGED <<managed, startCursor>>
    /\ UNCHANGED <<registryVars, killVars, worldVars, commandVars, raceVars, lookupVars, sideVars>>

\* pickWorkerName when GetYakBoxesDir fails: types.WorkerNames[rand.Intn(n)]
PickRandom ==
    /\ ~managed
    /\ Len(picks) < MaxRandomCalls
    /\ \E i \in 0..(N - 1) : picks' = Append(picks, WorkerNames[i + 1])
    /\ UNCHANGED <<cursorFile, managed, startCursor>>
    /\ UNCHANGED <<registryVars, killVars, worldVars, commandVars, raceVars, lookupVars, sideVars>>

-----------------------------------------------------------------------------
(* Session registry: internal/sessions/sessions.go *)

IdPool == <<"alpha", "beta", "gamma", "delta">>
Ids == {IdPool[i] : i \in 1..NumIds}

\* A text field holds a sequence: of characters where the code looks into the
\* text, of whole words where only its identity matters; <<>> is the empty string.

\* time.Time: the instant, and whether it carries a monotonic clock reading
\* (time.Now() does; a value parsed from JSON does not)
Time(wall, mono) == [wall |-> wall, mono |-> mono]

Session(worker, task, container, at, runtime, cwd, displayName, zellij, pidPath) ==
    [Worker |-> worker, Task |-> task, Container |-> container, SpawnedAt |-> at,
     Runtime |-> runtime, CWD |-> cwd, WorkerName |-> <<>>, DisplayName |-> displayName,
     ZellijSession |-> zellij, PidFile |-> pidPath]

\* the json tags of Session; the omitempty ones are left out when empty
RequiredKeys == {"worker", "spawned_at", "runtime", "cwd", "display_name"}
OmitEmptyKeys == {"task", "container", "worker_name", "zellij_session", "pid_file"}

FieldOf(s, key) ==
    CASE key = "worker" -> s.Worker
      [] key = "task" -> s.Task
      [] key = "container" -> s.Container
      [] key = "spawned_at" -> s.SpawnedAt.wall
      [] key = "runtime" -> s.Runtime
      [] key = "cwd" -> s.CWD
      [] key = "worker_name" -> s.WorkerName
      [] key = "display_name" -> s.DisplayName
      [] key = "zellij_session" -> s.ZellijSession
      [] key = "pid_file" -> s.PidFile

\* json.Marshal of one Session: a JSON object
MarshalSession(s) ==
    LET keys == RequiredKeys \cup {k \in OmitEmptyKeys : FieldOf(s, k) # <<>>}
    IN  [k \in keys |-> FieldOf(s, k)]

Member(obj, key) == IF key \in DOMAIN obj THEN obj[key] ELSE <<>>

\* json.Unmarshal of one JSON object into a Session
UnmarshalSession(obj) ==
    [Worker |-> Member(obj, "worker"), Task |-> Member(obj, "task"),
     Container |-> Member(obj, "container"),
     SpawnedAt |-> Time(IF "spawned_at" \in DOMAIN obj THEN obj["spawned_at"] ELSE 0, FALSE),
     Runtime |-> Member(obj, "runtime"), CWD |-> Member(obj, "cwd"),
     WorkerName |-> Member(obj, "worker_name"),
     DisplayName |-> Member(obj, "display_name"),
     ZellijSession |-> Member(obj, "zellij_session"),
     PidFile |-> Member(obj, "pid_file")]

NoSessions == [id \in {} |-> id]

\* what sessions.json can hold: nothing (absent), a JSON object of sessions,
\* the JSON value null, text that is no JSON, or no bytes at all
JsonFile(obj) == [kind |-> "json", obj |-> obj]
NullFile == [kind |-> "null"]
InvalidFile == [kind |-> "invalid"]
EmptyFile == [kind |-> "empty"]

\* what Load returns: the error, the map, and whether the map is nil
\* (json.Unmarshal of null leaves var sessions Sessions nil)
Ok(v) == [err |-> "none", val |-> v, isNil |-> FALSE]
OkNil == [err |-> "none", val |-> NoSessions, isNil |-> TRUE]
Err(e) == [err |-> e, val |-> NoSessions, isNil |-> TRUE]

LoadBad(file) ==
    CASE file.kind = "json" -> Ok([id \in DOMAIN file.obj |-> UnmarshalSession(file.obj[id])])
      [] file.kind = "absent" -> Err("read")
      [] OTHER -> Ok(NoSessions)

\* Load: a missing file is an empty map, undecodable content an error
Load(file) ==
    CASE file.kind = "absent" -> Ok(NoSessions)
      [] file.kind = "json" -> Ok([id \in DOMAIN file.obj |-> UnmarshalSession(file.obj[id])])
      [] file.kind = "null" -> OkNil
      [] OTHER -> Err("unmarshal")

\* Save: json.MarshalIndent of the whole map, written over the file
SaveFile(sessions, isNil) ==
    IF isNil THEN NullFile
    ELSE JsonFile([id \in DOMAIN sessions |-> MarshalSession(sessions[id])])

\* sessions[sessionID] = session
MapPutBad(sessions, id, s) == sessions

MapPut(sessions, id, s) ==
    [k \in (DOMAIN sessions) \cup {id} |-> IF k = id THEN s ELSE sessions[k]]

\* delete(sessions, sessionID)
MapDeleteBad(sessions, id) == sessions

MapDelete(sessions, id) ==
    [k \in (DOMAIN sessions) \ {id} |-> sessions[k]]

\* Register: load, insert or overwrite, save. saveFails is the file system
\* refusing the write; an insert into a nil map panics. Gives the error and
\* the file afterwards.
Register(file, id, s, saveFails) ==
    LET l == Load(file)
    IN  IF l.err # "none" THEN [err |-> l.err, file |-> file]
        ELSE IF l.isNil THEN [err |-> "panic", file |-> file]
        ELSE IF saveFails THEN [err |-> "save", file |-> file]
        ELSE [err |-> "none", file |-> SaveFile(MapPut(l.val, id, s), FALSE)]

UnregisterBad(file, id, saveFails) ==
    LET l == Load(file)
    IN  IF l.err # "none" THEN [err |-> l.err, file |-> file]
        ELSE IF saveFails THEN [err |-> "save", file |-> file]
        ELSE [err |-> "none", file |-> SaveFile(NoSessions, FALSE)]

\* Unregister: load, delete, save
Unregister(file, id, saveFails) ==
    LET l == Load(file)
    IN  IF l.err # "none" THEN [err |-> l.err, file |-> file]
        ELSE IF saveFails THEN [err |-> "save", file |-> file]
        ELSE [err |-> "none", file |-> SaveFile(MapDelete(l.val, id), l.isNil)]

NoSession == [none |-> TRUE]

GetBad(file, id) ==
    LET l == Load(file)
    IN  IF l.err # "none" THEN [err |-> l.err, session |-> NoSession]
        ELSE IF DOMAIN l.val = {} THEN [err |-> "notfound", session |-> NoSession]
        ELSE [err |-> "none", session |-> l.val[CHOOSE k \in DOMAIN l.val : TRUE]]

\* Get: load and look the id up
Get(file, id) ==
    LET l == Load(file)
    IN  IF l.err # "none" THEN [err |-> l.err, session |-> NoSession]
        ELSE IF id \notin DOMAIN l.val THEN [err |-> "notfound", session |-> NoSession]
        ELSE [err |-> "none", session |-> l.val[id]]

\* the sessions the registry is exercised with: fresh from time.Now() or
\* read back earlier, with and without the omitempty fields
SampleSessions ==
    {Session(<<"Yakriel">>, <<"t", "1">>, <<"yak-worker-", "a">>, Time(1, TRUE),
             <<"sandboxed">>, <<"ws">>, <<"Yakriel", "a">>, <<>>, <<>>),
     Session(<<"Yakov">>, <<>>, <<"yak-worker-", "b">>, Time(2, TRUE),
             <<"native">>, <<"ws">>, <<"Yakov">>, <<"main">>, <<"home", "worker.pid">>),
     Session(<<"Yakov">>, <<"t", "1">>, <<>>, Time(1, FALSE),
             <<"native">>, <<"ws">>, <<"Yakov", "b">>, <<>>, <<>>)}

RegistryStarts == {Absent, JsonFile(NoSessions), NullFile, InvalidFile, EmptyFile}

NoCall == [op |-> "none"]
Untracked == [tag |-> "none"]

InitRegistry ==
    /\ sessionsFile \in RegistryStarts
    /\ regLast = NoCall
    /\ expect = [id \in Ids |-> Untracked]

RegisterCall ==
    /\ UNCHANGED <<personaVars, killVars, worldVars, commandVars, raceVars, lookupVars, sideVars>>
    /\ \E id \in Ids, s \in SampleSessions, saveFails \in BOOLEAN :
        LET r == Register(sessionsFile, id, s, saveFails)
        IN  /\ sessionsFile' = r.file
            /\ regLast' = [op |-> "Register", id |-> id, err |-> r.err]
            /\ expect' = [expect EXCEPT ![id] =
                             IF r.err = "none" THEN [tag |-> "registered", s |-> s]
                             ELSE Untracked]

UnregisterCall ==
    /\ UNCHANGED <<personaVars, killVars, worldVars, commandVars, raceVars, lookupVars, sideVars>>
    /\ \E id \in Ids, saveFails \in BOOLEAN :
        LET r == Unregister(sessionsFile, id, saveFails)
        IN  /\ sessionsFile' = r.file
            /\ regLast' = [op |-> "Unregister", id |-> id, err |-> r.err,
                           was |-> id \in DOMAIN Load(sessionsFile).val]
            /\ expect' = [expect EXCEPT ![id] =
                             IF r.err = "none" /\ expect[id].tag = "registered"
                             THEN [tag |-> "unregistered"]
                             ELSE Untracked]

GetCall ==
    /\ UNCHANGED <<personaVars, killVars, worldVars, commandVars, raceVars, lookupVars, sideVars>>
    /\ \E id \in Ids :
        LET r == Get(sessionsFile, id)
        IN  /\ regLast' = [op |-> "Get", id |-> id, err |-> r.err, session |-> r.session]
            /\ UNCHANGED <<sessionsFile, expect>>

LoadCall ==
    /\ UNCHANGED <<personaVars, killVars, worldVars, commandVars, raceVars, lookupVars, sideVars>>
    /\ LET l == Load(sessionsFile)
       IN  /\ regLast' = [op |-> "Load", err |-> l.err, val |-> l.val, isNil |-> l.isNil]
           /\ UNCHANGED <<sessionsFile, expect>>

-----------------------------------------------------------------------------
(* Process-tree terminator: internal/runtime/native.go KillNativeProcessTree *)

\* the PID the wrapper script wrote (echo $$ > pidFile)
WorkerPid == 7

\* time.Sleep(100 * time.Millisecond), in ticks of 50 ms
PollInterval == 2

ProbeAliveBad(p, pid) == TRUE

\* proc.Signal(syscall.Signal(0)) returns nil: the process exists
ProbeAlive(p, pid) == pid = WorkerPid /\ p.alive

ParsePidBad(file) ==
    IF file.kind = "absent" THEN [readOk |-> FALSE, ok |-> FALSE, pid |-> 0]
    ELSE [readOk |-> TRUE, ok |-> TRUE,
          pid |-> IF file.kind = "text" /\ AtoiOk(TrimSpace(file.text))
                  THEN Atoi(TrimSpace(file.text)) ELSE WorkerPid]

\* os.ReadFile(pidFile), then strconv.Atoi(strings.TrimSpace(string(data)))
ParsePid(file) ==
    LET readOk == file.kind = "text"
        parseOk == readOk /\ AtoiOk(TrimSpace(file.text))
    IN  [readOk |-> readOk, ok |-> parseOk,
         pid |-> IF parseOk THEN Atoi(TrimSpace(file.text)) ELSE 0]

BeforeBad(now, deadline) == now <= deadline

\* time.Now().Before(deadline)
Before(now, deadline) == now < deadline

DeadlineBad(now, timeout) == now

\* deadline := time.Now().Add(timeout)
Deadline(now, timeout) == now + timeout

\* what a PID file can hold when stop runs
PidFileStarts ==
    {Absent} \cup {Text(t) : t \in {<<"7", "\n">>, <<"7">>, <<"x">>, <<>>}}

KillIdle == [pc |-> "idle"]

InitKill ==
    /\ pidFile \in PidFileStarts
    /\ proc \in [kind : {"obedient", "stubborn"}, alive : BOOLEAN,
                 termPending : {FALSE}, killPending : {FALSE}]
    /\ clock = 0
    /\ kill = KillIdle
    /\ signals = <<>>

KillReturn(err, k) == [k EXCEPT !.pc = "done", !.err = err, !.endAt = clock]

\* lines 208-239: read and parse the PID, probe, send SIGTERM to the group
\* (or, if that fails, to the process), compute the deadline
KillBegin ==
    /\ kill.pc = "idle"
    /\ \E timeout \in 0..MaxTimeout, groupOk \in BOOLEAN :
        LET parsed == ParsePid(pidFile)
            readOk == parsed.readOk
            parseOk == parsed.ok
            pid == parsed.pid
            k0 == [pc |-> "idle", err |-> "none", timeout |-> timeout, pid |-> pid,
                   pidOk |-> parseOk, aliveAtStart |-> proc.alive,
                   startWait |-> clock, deadline |-> 0, wake |-> 0, endAt |-> 0]
        IN  IF ~readOk THEN
                /\ kill' = KillReturn("read", k0)
                /\ UNCHANGED <<pidFile, proc, signals>>
            ELSE IF ~parseOk THEN
                /\ kill' = KillReturn("parse", k0)
                /\ UNCHANGED <<pidFile, proc, signals>>
            ELSE IF ~ProbeAlive(proc, pid) THEN
                /\ pidFile' = Absent
                /\ kill' = KillReturn("none", k0)
                /\ UNCHANGED <<proc, signals>>
            ELSE
                /\ signals' = Append(signals,
                        [sig |-> "TERM", to |-> IF groupOk THEN "group" ELSE "process"])
                /\ proc' = [proc EXCEPT !.termPending = TRUE]
                /\ kill' = [k0 EXCEPT !.pc = "loop", !.deadline = Deadline(clock, timeout)]
                /\ UNCHANGED pidFile
    /\ UNCHANGED clock
    /\ UNCHANGED <<personaVars, registryVars, worldVars, commandVars, raceVars, lookupVars, sideVars>>

\* lines 240-253: one turn of the poll loop, or what follows the loop
KillPoll ==
    /\ kill.pc = "loop"
    /\ IF Before(clock, kill.deadline) THEN
            IF ~ProbeAlive(proc, kill.pid) THEN
                /\ pidFile' = Absent
                /\ kill' = KillReturn("none", kill)
                /\ UNCHANGED <<proc, signals>>
            ELSE
                /\ kill' = [kill EXCEPT !.pc = "sleep", !.wake = clock + PollInterval]
                /\ UNCHANGED <<pidFile, proc, signals>>
       ELSE
            \E groupOk \in BOOLEAN :
                /\ signals' = Append(signals,
                        [sig |-> "KILL", to |-> IF groupOk THEN "group" ELSE "process"])
                /\ proc' = [proc EXCEPT !.killPending = TRUE]
                /\ pidFile' = Absent
                /\ kill' = KillReturn("none", kill)
    /\ UNCHANGED clock
    /\ UNCHANGED <<personaVars, registryVars, worldVars, commandVars, raceVars, lookupVars, sideVars>>

\* line 245: time.Sleep is over
KillWake ==
    /\ kill.pc = "sleep"
    /\ clock >= kill.wake
    /\ kill' = [kill EXCEPT !.pc = "loop"]
    /\ UNCHANGED <<pidFile, proc, clock, signals>>
    /\ UNCHANGED <<personaVars, registryVars, worldVars, commandVars, raceVars, lookupVars, sideVars>>

\* time passes: up to MaxClock, and beyond it for as long as a call sleeps
Tick ==
    /\ clock < MaxClock \/ (kill.pc = "sleep" /\ clock < kill.wake)
    /\ clock' = clock + 1
    /\ UNCHANGED <<pidFile, proc, kill, signals>>
    /\ UNCHANGED <<personaVars, registryVars, worldVars, commandVars, raceVars, lookupVars, sideVars>>

\* the process acts on a signal: SIGTERM ends an obedient one, SIGKILL any
ProcessDies ==
    /\ proc.alive
    /\ proc.killPending \/ (proc.termPending /\ proc.kind = "obedient")
    /\ proc' = [proc EXCEPT !.alive = FALSE]
    /\ UNCHANGED <<pidFile, clock, kill, signals>>
    /\ UNCHANGED <<personaVars, registryVars, worldVars, commandVars, raceVars, lookupVars, sideVars>>

-----------------------------------------------------------------------------
(* Names and paths: cmd/spawn.go, pkg/types/types.go *)

Lower == {"a", "b", "c", "d", "e", "f", "g", "h", "i", "j", "k", "l", "m",
          "n", "o", "p", "q", "r", "s", "t", "u", "v", "w", "x", "y", "z"}
Upper == {"A", "B", "C", "D", "E", "F", "G", "H", "I", "J", "K", "L", "M",
          "N", "O", "P", "Q", "R", "S", "T", "U", "V", "W", "X", "Y", "Z"}

\* the runes the strings.Map of runSpawn keeps
KeptRune(c) == c \in Lower \/ c \in Upper \/ IsDigit(c) \/ c = "-" \/ c = "_"

\* strings.ReplaceAll(s, " ", "-")
SpacesToDashes(t) == [i \in 1..Len(t) |-> IF t[i] = " " THEN "-" ELSE t[i]]

RECURSIVE KeepRunes(_)
KeepRunes(t) ==
    IF t = <<>> THEN <<>>
    ELSE IF KeptRune(Head(t)) THEN <<Head(t)>> \o KeepRunes(Tail(t))
    ELSE KeepRunes(Tail(t))

\* sanitizedName of runSpawn: spaces to dashes, then every rune that is no
\* letter, digit, dash or underscore dropped
Sanitize(name) == KeepRunes(SpacesToDashes(name))

\* containerNamePrefix
ContainerNamePrefix == <<"y", "a", "k", "-", "w", "o", "r", "k", "e", "r", "-">>

\* formatDisplayName: the persona, and the trimmed session name when not blank
FormatDisplayName(workerName, spawnName) ==
    IF TrimSpace(spawnName) = <<>> THEN <<workerName>>
    ELSE <<workerName, "sep">> \o TrimSpace(spawnName)

\* strings.Split(s, "/"): the parts between the slashes
RECURSIVE SplitSlash(_)
SplitSlash(t) ==
    IF \A i \in 1..Len(t) : t[i] # "/" THEN <<t>>
    ELSE LET k == CHOOSE i \in 1..Len(t) :
                     t[i] = "/" /\ \A j \in 1..(i - 1) : t[j] # "/"
         IN  <<SubSeq(t, 1, k - 1)>> \o SplitSlash(SubSeq(t, k + 1, Len(t)))

\* filepath.Join: empty elements are dropped (the model has no "." or "..")
JoinParts(parts) == SelectSeq(parts, LAMBDA c : c # <<>>)

\* SlugifyTaskPath: spaces to dashes in every part of the task path; the
\* result is a relative path, a sequence of directory names
SlugifyTaskPath(taskPath) ==
    LET parts == SplitSlash(taskPath)
    IN  JoinParts([i \in 1..Len(parts) |-> SpacesToDashes(parts[i])])

\* directory names of the modelled workspace
DirWs == <<"w", "s">>
DirSub == <<"s", "u", "b">>
DirYaks == <<".", "y", "a", "k", "s">>
DirTaskA == <<"a", "-", "b">>
DirGroup == <<"g">>
DirTaskT == <<"t", "2">>

\* the directories on disk, in the lexical order filepath.Walk visits them:
\* /ws is the git root, /ws/.yaks the task tracker with the tasks a-b and g/t2
DirList ==
    << <<DirWs>>,
       <<DirWs, DirYaks>>,
       <<DirWs, DirYaks, DirTaskA>>,
       <<DirWs, DirYaks, DirGroup>>,
       <<DirWs, DirYaks, DirGroup, DirTaskT>>,
       <<DirWs, DirSub>> >>

Dirs == {DirList[i] : i \in 1..Len(DirList)}

IsDir(path) == path \in Dirs

IsPrefix(a, b) == Len(a) <= Len(b) /\ SubSeq(b, 1, Len(a)) = a

\* filepath.Base of a relative path
Base(rel) == IF rel = <<>> THEN <<".">> ELSE rel[Len(rel)]

NotFound == [found |-> FALSE, path |-> <<>>]
Found(path) == [found |-> TRUE, path |-> path]

\* the error of findTaskDir: "no directory matching %q found under %s"
NoMatch == [found |-> FALSE, path |-> <<>>, err |-> "no directory matching"]

\* the directories of a tree in the order filepath.Walk visits them from root
WalkFrom(dirList, root) == SelectSeq(dirList, LAMBDA d : IsPrefix(root, d))

FindTaskDirInBad(dirList, yakPath, taskSlug) ==
    LET leafName == Base(taskSlug)
        matches == SelectSeq(WalkFrom(dirList, yakPath), LAMBDA d :
                       d # yakPath /\ d[Len(d)] = leafName)
    IN  IF matches = <<>> THEN NoMatch ELSE Found(matches[1])

\* findTaskDir on the tree dirList: the direct join when it is a directory,
\* else the first directory under yakPath, in walk order, whose name is the
\* slug's base
FindTaskDirIn(dirList, yakPath, taskSlug) ==
    LET directPath == yakPath \o taskSlug
        leafName == Base(taskSlug)
        matches == SelectSeq(WalkFrom(dirList, yakPath), LAMBDA d :
                       d # yakPath /\ d[Len(d)] = leafName)
    IN  IF \E i \in 1..Len(dirList) : dirList[i] = directPath THEN Found(directPath)
        ELSE IF matches = <<>> THEN NoMatch
        ELSE Found(matches[1])

\* findTaskDir in the modelled workspace
FindTaskDir(yakPath, taskSlug) == FindTaskDirIn(DirList, yakPath, taskSlug)

\* findYakPath: walk up from startDir to the first directory that holds yakDirName
RECURSIVE FindYakPath(_, _)
FindYakPath(startDir, yakDirName) ==
    IF IsDir(startDir \o <<yakDirName>>) THEN Found(startDir \o <<yakDirName>>)
    ELSE IF startDir = <<>> THEN NotFound
    ELSE FindYakPath(SubSeq(startDir, 1, Len(startDir) - 1), yakDirName)

\* the directories that can hold an assigned-to file
TaskDirs == {d \in Dirs : IsPrefix(<<DirWs, DirYaks>>, d)}

-----------------------------------------------------------------------------
(* What the commands are given *)

NameA == <<"a">>
NameAB == <<"a", " ", "b">>
NameBang == <<"a", "!">>
Names == {NameA, NameAB, NameBang}

\* task paths: a-b is found by the direct join, t2 by its leaf name under g,
\* g/t2 by the direct join of a nested path, z is in no tracker
TaskAB == <<"a", " ", "b">>
TaskT == <<"t", "2">>
TaskGT == <<"g", "/", "t", "2">>
TaskZ == <<"z">>
TaskLists ==
    {<<>>, <<TaskAB>>, <<TaskT>>, <<TaskGT>>, <<TaskZ>>, <<TaskAB, TaskT>>,
     <<TaskZ, TaskAB>>}

\* where a command can be run from; /tmp has no tracker above it
Cwds == {<<DirWs>>, <<DirWs, DirSub>>, <<<<"t", "m", "p">>>>}

\* one way the environment can fail a spawn: creating the home, building the
\* image, writing a script, opening the tab, saving the registry, writing an
\* assignment file; or, with the tab open, the engine refusing the run script's
\* docker run, so that no container comes up
SpawnFaults == {"none", "home", "build", "scripts", "tab", "save", "write", "run"}

\* the task directories whose assigned-to file cannot be written: all of them
\* under the fault "write", that of the task a-b alone under "write1"
Unwritable(fault) ==
    IF fault = "write" THEN TaskDirs
    ELSE IF fault = "write1" THEN {<<DirWs, DirYaks, DirTaskA>>}
    ELSE {}

SpawnIn(runtime, detected, name, cwd, changed, tasks, clean, fault) ==
    [runtime |-> runtime, detected |-> detected, name |-> name, cwd |-> cwd,
     yakPathChanged |-> changed, yakPath |-> <<DirWs, DirYaks>>, tasks |-> tasks,
     clean |-> clean, fault |-> fault]

\* --runtime and, for auto, what DetectRuntime finds
RuntimeChoices ==
    {<<"sandboxed", "sandboxed">>, <<"native", "native">>, <<"auto", "sandboxed">>,
     <<"auto", "native">>, <<"auto", "unknown">>}

\* --cwd and whether --yak-path is given
Locations ==
    {<<c, FALSE>> : c \in Cwds} \cup {<<<<DirWs, DirSub>>, TRUE>>}

SpawnInputs ==
    {SpawnIn("sandboxed", "sandboxed", n, <<DirWs>>, FALSE, ts, FALSE, "none") :
        n \in Names, ts \in TaskLists}
    \cup {SpawnIn("sandboxed", "sandboxed", NameA, <<DirWs>>, FALSE, ts, FALSE, f) :
        ts \in TaskLists, f \in {"save", "write"}}
    \cup {SpawnIn("sandboxed", "sandboxed", NameA, <<DirWs>>, FALSE, ts, FALSE, "write1") :
        ts \in {<<TaskAB, TaskT>>, <<TaskZ, TaskAB>>}}
    \cup {SpawnIn(r[1], r[2], NameA, l[1], l[2], <<TaskT>>, FALSE, "none") :
        r \in RuntimeChoices, l \in Locations}
    \cup {SpawnIn(r, r, NameAB, <<DirWs>>, FALSE, <<TaskAB>>, FALSE, f) :
        r \in {"sandboxed", "native"}, f \in SpawnFaults}
    \cup {SpawnIn(r, r, NameAB, <<DirWs>>, FALSE, <<TaskAB>>, TRUE, f) :
        r \in {"sandboxed", "native"}, f \in {"none", "home"}}

\* one way the environment can fail a stop
StopFaults == {"none", "timeout", "remove", "tab", "ps", "stop", "rm", "save"}

StopIn(name, force, dryRun, cwd, fault) ==
    [name |-> name, force |-> force, dryRun |-> dryRun, cwd |-> cwd, fault |-> fault]

StopInputs ==
    {StopIn(n, f, d, <<DirWs>>, "none") : n \in Names, f \in BOOLEAN, d \in BOOLEAN}
    \cup {StopIn(NameA, FALSE, FALSE, <<DirWs, DirSub>>, "none")}
    \cup {StopIn(n, FALSE, FALSE, <<DirWs>>, f) : n \in {NameA, NameAB}, f \in StopFaults}

-----------------------------------------------------------------------------
(* Spawn orchestrator: cmd/spawn.go runSpawn *)

\* sessions.GetHomeDir joined with scripts/worker.pid (SpawnNativeWorker)
PidFilePath(workerName) == <<"home", workerName, "scripts", "worker.pid">>

WorkerContainerNameBad(spawnName) == ContainerNamePrefix \o spawnName

\* ContainerName of the Worker runSpawn builds: "yak-worker-" + sanitizedName
WorkerContainerName(spawnName) == ContainerNamePrefix \o Sanitize(spawnName)

\* containerName of SpawnSandboxedWorker and of generateRunScript's --name:
\* containerNamePrefix + cfg.worker.Name
RunScriptContainerName(spawnName) == ContainerNamePrefix \o spawnName

\* taskName := spawnYaks[0], or "" without tasks
FirstTask(tasks) == IF Len(tasks) > 0 THEN tasks[1] ELSE <<>>

\* the loop over spawnYaks: every task whose directory is found gets its
\* assigned-to file overwritten with the persona, unless the write fails;
\* either failure is a warning and the loop goes on
RECURSIVE AssignTasks(_, _, _, _, _)
AssignTasks(files, yakPath, tasks, workerName, unwritable) ==
    IF tasks = <<>> THEN files
    ELSE LET dir == FindTaskDir(yakPath, SlugifyTaskPath(Head(tasks)))
             wrote == IF dir.found /\ dir.path \notin unwritable
                      THEN [files EXCEPT ![dir.path] = Text(<<workerName>>)]
                      ELSE files
         IN  AssignTasks(wrote, yakPath, Tail(tasks), workerName, unwritable)

NoCommand == [cmd |-> "none"]

ResolveRuntimeBad(flag, detected) ==
    IF flag = "auto" /\ detected = "unknown" THEN "native"
    ELSE IF flag = "auto" THEN detected ELSE flag

\* runtimeType of runSpawn: --runtime, or with auto what DetectRuntime returns
ResolveRuntime(flag, detected) == IF flag = "auto" THEN detected ELSE flag

LaunchErrorBad(runtimeType, yakFound, fault) ==
    IF runtimeType = "unknown" THEN "noruntime"
    ELSE IF ~yakFound THEN "noyaks"
    ELSE "none"

\* the error runSpawn returns before it registers the session, "none" when
\* the worker is launched: no runtime, no tracker, CleanHome or EnsureHomeDir
\* failing, EnsureDevcontainer failing, SpawnSandboxedWorker or
\* SpawnNativeWorker failing to write a script or to open the tab
LaunchError(runtimeType, yakFound, fault) ==
    IF runtimeType = "unknown" THEN "noruntime"
    ELSE IF ~yakFound THEN "noyaks"
    ELSE IF fault = "home" THEN "home"
    ELSE IF runtimeType = "sandboxed" /\ fault = "build" THEN "build"
    ELSE IF fault \in {"scripts", "tab"} THEN "launch"
    ELSE "none"

\* One spawn command from start to return.  Without --auto-worktree, so the
\* working directory stays as given and no worktree-path marker is written.
RunSpawn ==
    /\ cmds < MaxCmds
    /\ \E in \in SpawnInputs :
        LET runtimeType == ResolveRuntime(in.runtime, in.detected)
            yak == IF in.yakPathChanged THEN Found(in.yakPath)
                   ELSE FindYakPath(in.cwd, DirYaks)
            idx == CursorIndex(cursorFile)
            workerName == WorkerNames[idx + 1]
            launchErr == LaunchError(runtimeType, yak.found, in.fault)
            picked == launchErr \notin {"noruntime", "noyaks"}
            launched == launchErr = "none"
            displayName == FormatDisplayName(workerName, in.name)
            session == Session(<<workerName>>, FirstTask(in.tasks),
                               WorkerContainerName(in.name), Time(cmds + 1, TRUE),
                               <<runtimeType>>, in.cwd, displayName, <<>>,
                               IF runtimeType = "sandboxed" THEN <<>>
                               ELSE PidFilePath(workerName))
            reg == Register(sessionsFile, in.name, session, in.fault = "save")
            \* sessions[sessionID] = session on the nil map of a sessions.json
            \* that holds null panics: the process dies where it stands
            panicked == launched /\ reg.err = "panic"
            err == IF panicked THEN "panic" ELSE launchErr
        IN  /\ cursorFile' = IF picked THEN Text(Itoa(NextCursor(idx))) ELSE cursorFile
            /\ picks' = IF picked THEN Append(picks, workerName) ELSE picks
            /\ homes' = IF ~picked THEN homes
                        ELSE IF launchErr = "home"
                             THEN (IF in.clean THEN homes \ {workerName} ELSE homes)
                        ELSE homes \cup {workerName}
            /\ pidFiles' = IF ~picked THEN pidFiles
                           ELSE IF launched /\ runtimeType # "sandboxed"
                                THEN [pidFiles EXCEPT ![workerName] = cmds + 1]
                           ELSE IF in.clean THEN [pidFiles EXCEPT ![workerName] = 0]
                           ELSE pidFiles
            /\ procs' = IF launched /\ runtimeType # "sandboxed"
                        THEN procs \cup {cmds + 1} ELSE procs
            /\ tabs' = IF launched THEN tabs \cup {displayName} ELSE tabs
            /\ containers' = IF launched /\ runtimeType = "sandboxed" /\ in.fault # "run"
                             THEN containers \cup {RunScriptContainerName(in.name)}
                             ELSE containers
            /\ sessionsFile' = IF launched THEN reg.file ELSE sessionsFile
            /\ assigned' = IF launched /\ ~panicked
                           THEN AssignTasks(assigned, yak.path, in.tasks, workerName,
                                            Unwritable(in.fault))
                           ELSE assigned
            /\ last' = [cmd |-> "spawn", in |-> in, err |-> err,
                        runtime |-> runtimeType,
                        persona |-> IF picked THEN <<workerName>> ELSE <<>>,
                        launched |-> launched,
                        registerErr |-> IF launched THEN reg.err ELSE "skipped",
                        yakPath |-> yak.path,
                        pid |-> IF launched /\ runtimeType # "sandboxed"
                                THEN cmds + 1 ELSE 0]
    /\ prev' = last
    /\ cmds' = cmds + 1
    /\ UNCHANGED <<managed, startCursor, regLast, expect, killVars, raceVars, lookupVars, sideVars>>

-----------------------------------------------------------------------------
(* Stop orchestrator: cmd/stop.go runStop *)

\* the Session the fallback detection makes up from a container name
FallbackSession(containerName, stopName) ==
    Session(<<>>, <<>>, containerName, Time(0, FALSE), <<"sandboxed">>, <<>>,
            stopName, <<>>, <<>>)

\* the assigned-to file runStop removes: filepath.Join(".yaks",
\* SlugifyTaskPath(session.Task)), relative to the directory stop runs in
StopTaskDir(cwd, task) == cwd \o <<DirYaks>> \o SlugifyTaskPath(task)

HomesAfterStopBad(dirs, workerName) == dirs \ {workerName}

\* runStop calls nothing that touches .yak-boxes/home
HomesAfterStop(dirs, workerName) == dirs

\* StopSandboxedWorker(name): docker ps -a, docker stop, docker rm on
\* containerNamePrefix + name; gives the error and the containers afterwards
StopSandboxedWorker(held, name, fault) ==
    LET containerName == ContainerNamePrefix \o name
    IN  IF fault = "ps" THEN [err |-> "check", held |-> held]
        ELSE IF containerName \notin held THEN [err |-> "notfound", held |-> held]
        ELSE IF fault = "stop" THEN [err |-> "stop", held |-> held]
        ELSE IF fault = "rm" THEN [err |-> "remove", held |-> held]
        ELSE [err |-> "none", held |-> held \ {containerName}]

\* KillNativeProcessTree(session.PidFile) run to its return, for a worker that
\* dies on SIGKILL at the latest: without a readable PID file an error, else
\* the process is signalled and the file removed
KillProcessTree(files, running, path) ==
    LET workerName == path[2]
        pid == files[workerName]
    IN  IF pid = 0 THEN [err |-> "read", files |-> files, running |-> running]
        ELSE [err |-> "none", files |-> [files EXCEPT ![workerName] = 0],
              running |-> running \ {pid}]

FallbackFoundBad(held, containerName, fault) == TRUE

\* the fallback detection of runStop: ListAllContainers succeeds and lists
\* "yak-worker-" + stopName
FallbackFound(held, containerName, fault) == fault # "ps" /\ containerName \in held

TearsDownBad(found, dryRun) == found

\* whether runStop reaches the teardown and the Unregister: a session was
\* found and --dry-run is not set
TearsDown(found, dryRun) == found /\ ~dryRun

StopCallsBad(runtime, hasPidFile, tears) ==
    IF ~tears THEN <<>>
    ELSE IF runtime = <<"sandboxed">> THEN <<"tab", "container">>
    ELSE IF runtime = <<"native">>
         THEN <<"tab">> \o (IF hasPidFile THEN <<"kill">> ELSE <<>>) \o <<"unregister">>
    ELSE <<"unregister">>

\* what runStop calls, in order, once it has its session: StopNativeWorker
\* ("tab"), StopSandboxedWorker ("container"), KillNativeProcessTree ("kill"),
\* sessions.Unregister; every error of the first three is only printed
StopCalls(runtime, hasPidFile, tears) ==
    IF ~tears THEN <<>>
    ELSE IF runtime = <<"sandboxed">> THEN <<"tab", "container", "unregister">>
    ELSE IF runtime = <<"native">>
         THEN (IF hasPidFile THEN <<"kill">> ELSE <<>>) \o <<"tab", "unregister">>
    ELSE <<"unregister">>

\* One stop command from start to return.
RunStop ==
    /\ cmds < MaxCmds
    /\ \E in \in StopInputs :
        LET got == Get(sessionsFile, in.name)
            containerName == ContainerNamePrefix \o in.name
            fallback == got.err # "none"
                        /\ FallbackFound(containers, containerName, in.fault)
            found == in.fault # "timeout" /\ (got.err = "none" \/ fallback)
            session == IF got.err = "none" THEN got.session
                       ELSE FallbackSession(containerName, in.name)
            err == IF in.fault = "timeout" THEN "timeout"
                   ELSE IF ~found THEN "notfound" ELSE "none"
            clears == found /\ ~in.force /\ session.Task # <<>>
            target == StopTaskDir(in.cwd, session.Task)
            tears == TearsDown(found, in.dryRun)
            sandboxed == session.Runtime = <<"sandboxed">>
            native == session.Runtime = <<"native">>
            stopped == StopSandboxedWorker(containers, in.name, in.fault)
            killed == KillProcessTree(pidFiles, procs, session.PidFile)
            unreg == Unregister(sessionsFile, in.name, in.fault = "save")
            calls == StopCalls(session.Runtime, session.PidFile # <<>>, tears)
            Calls(c) == \E i \in 1..Len(calls) : calls[i] = c
        IN  /\ assigned' = IF clears /\ in.fault # "remove" /\ target \in TaskDirs
                           THEN [assigned EXCEPT ![target] = Absent]
                           ELSE assigned
            /\ tabs' = IF Calls("tab") /\ in.fault # "tab"
                       THEN tabs \ {session.DisplayName} ELSE tabs
            /\ containers' = IF Calls("container") THEN stopped.held ELSE containers
            /\ pidFiles' = IF Calls("kill") THEN killed.files ELSE pidFiles
            /\ procs' = IF Calls("kill") THEN killed.running ELSE procs
            /\ sessionsFile' = IF Calls("unregister") THEN unreg.file ELSE sessionsFile
            /\ homes' = IF found /\ session.Worker # <<>>
                        THEN HomesAfterStop(homes, session.Worker[1]) ELSE homes
            /\ last' = [cmd |-> "stop", in |-> in, err |-> err,
                        source |-> IF ~found THEN "none"
                                   ELSE IF got.err = "none" THEN "registry" ELSE "fallback",
                        session |-> IF found THEN session ELSE NoSession,
                        target |-> IF clears THEN target ELSE <<>>,
                        containerErr |-> IF Calls("container") THEN stopped.err
                                         ELSE "skipped",
                        killErr |-> IF Calls("kill") THEN killed.err ELSE "skipped",
                        unregisterErr |-> IF Calls("unregister") THEN unreg.err
                                          ELSE "skipped",
                        calls |-> calls]
    /\ prev' = last
    /\ cmds' = cmds + 1
    /\ UNCHANGED <<personaVars, regLast, expect, killVars, raceVars, lookupVars, sideVars>>

-----------------------------------------------------------------------------
(* Concurrent registry calls: internal/sessions/sessions.go Register,
   Unregister, Load, Save.  Nothing locks sessions.json, and Save's
   os.WriteFile is an open that truncates followed by a write. *)

Racers == 1..NumRacers

\* the session racer r registers
RaceSession(r) ==
    Session(<<"worker", r>>, <<"task", r>>, <<"container", r>>, Time(r, TRUE),
            <<"runtime">>, <<"cwd">>, <<"Session", r>>, <<>>, <<>>)

\* how long a file is, counted in sessions: files of more sessions are longer
FileSize(file) ==
    CASE file.kind = "json" -> 1 + Cardinality(DOMAIN file.obj)
      [] file.kind = "null" -> 1
      [] file.kind = "invalid" -> IF "size" \in DOMAIN file THEN file.size ELSE 1
      [] OTHER -> 0

\* the start of one text followed by the rest of a longer one: no JSON
TornFile(size) == [kind |-> "invalid", size |-> size]

WriteOverBad(file, data) ==
    IF file.kind = "json" /\ data.kind = "json"
    THEN JsonFile([k \in DOMAIN file.obj \cup DOMAIN data.obj |->
                      IF k \in DOMAIN data.obj THEN data.obj[k] ELSE file.obj[k]])
    ELSE data

\* f.Write(data) at offset 0 of a file that another writer may have filled
\* since this writer's open truncated it: what is longer than data stays
WriteOver(file, data) ==
    IF FileSize(data) >= FileSize(file) THEN data ELSE TornFile(FileSize(file))

\* sessions.json when the calls start: missing, holding one other session (as
\* in TestConcurrentSessions), or holding a session under every racer's id
RaceStarts ==
    {Absent,
     JsonFile([id \in {"session0"} |-> MarshalSession(RaceSession(0))]),
     JsonFile([id \in {IdPool[r] : r \in Racers} |-> MarshalSession(RaceSession(0))])}

InitRace ==
    /\ sessionsFile \in RaceStarts
    /\ racers \in [Racers -> [op : {"Register", "Unregister"}, pc : {"load"},
                              err : {"none"}, data : {Absent}]]
    /\ lastWriter = 0

IdleRace ==
    /\ racers = <<>>
    /\ lastWriter = 0

\* Load, and the change of the map in memory
RaceLoad(r) ==
    /\ racers[r].pc = "load"
    /\ LET l == Load(sessionsFile)
           id == IdPool[r]
       IN  racers' = [racers EXCEPT ![r] =
               IF l.err # "none" THEN [@ EXCEPT !.pc = "done", !.err = l.err]
               ELSE IF @.op = "Register" /\ l.isNil
                    THEN [@ EXCEPT !.pc = "done", !.err = "panic"]
               ELSE IF @.op = "Register"
                    THEN [@ EXCEPT !.pc = "open",
                             !.data = SaveFile(MapPut(l.val, id, RaceSession(r)), FALSE)]
               ELSE [@ EXCEPT !.pc = "open",
                        !.data = SaveFile(MapDelete(l.val, id), l.isNil)]]
    /\ UNCHANGED <<sessionsFile, lastWriter>>
    /\ UNCHANGED <<personaVars, regLast, expect, killVars, worldVars, commandVars, lookupVars, sideVars>>

\* Save, first half: os.WriteFile opens with O_TRUNC
RaceOpen(r) ==
    /\ racers[r].pc = "open"
    /\ sessionsFile' = EmptyFile
    /\ racers' = [racers EXCEPT ![r].pc = "write"]
    /\ UNCHANGED lastWriter
    /\ UNCHANGED <<personaVars, regLast, expect, killVars, worldVars, commandVars, lookupVars, sideVars>>

\* Save, second half: the write, and the return of the call
RaceWrite(r) ==
    /\ racers[r].pc = "write"
    /\ sessionsFile' = WriteOver(sessionsFile, racers[r].data)
    /\ racers' = [racers EXCEPT ![r].pc = "done"]
    /\ lastWriter' = r
    /\ UNCHANGED <<personaVars, regLast, expect, killVars, worldVars, commandVars, lookupVars, sideVars>>

RaceLoads == \E r \in Racers : RaceLoad(r)
RaceOpens == \E r \in Racers : RaceOpen(r)
RaceWrites == \E r \in Racers : RaceWrite(r)

-----------------------------------------------------------------------------
(* Lookup functions: internal/runtime/sandboxed.go DetectRuntime and
   GetResourceProfile, cmd/spawn.go findTaskDir *)

DetectRuntimeBad(dockerOnPath, dockerPsOk, zellijOnPath) ==
    IF dockerOnPath THEN "sandboxed"
    ELSE IF zellijOnPath THEN "native"
    ELSE "unknown"

\* DetectRuntime, given what exec.LookPath("docker"), the run of docker ps
\* and exec.LookPath("zellij") come to
DetectRuntime(dockerOnPath, dockerPsOk, zellijOnPath) ==
    IF dockerOnPath /\ dockerPsOk THEN "sandboxed"
    ELSE IF zellijOnPath THEN "native"
    ELSE "unknown"

\* the Tmpfs map of a profile: mount point to mount options
Tmpfs(tmp, home, cache) ==
    ("/tmp" :> tmp) @@ ("/home/yak-shaver" :> home)
        @@ ("/home/yak-shaver/.cache" :> cache)

ProfileLight ==
    [Name |-> "light", CPUs |-> "0.5", Memory |-> "1g", Swap |-> "", PIDs |-> 256,
     Tmpfs |-> Tmpfs("size=1g,exec,uid=1000,gid=1000",
                     "size=512m,exec,uid=1000,gid=1000",
                     "size=512m,exec,uid=1000,gid=1000")]

ProfileHeavy ==
    [Name |-> "heavy", CPUs |-> "2.0", Memory |-> "4g", Swap |-> "", PIDs |-> 1024,
     Tmpfs |-> Tmpfs("size=2g,exec,uid=1000,gid=1000",
                     "size=1g,exec,uid=1000,gid=1000",
                     "size=1g,exec,uid=1000,gid=1000")]

ProfileRam ==
    [Name |-> "ram", CPUs |-> "0", Memory |-> "8g", Swap |-> "16g", PIDs |-> 2048,
     Tmpfs |-> Tmpfs("size=4g,exec,uid=1000,gid=1000",
                     "size=2g,exec,uid=1000,gid=1000",
                     "size=2g,exec,uid=1000,gid=1000")]

ProfileDefault ==
    [Name |-> "default", CPUs |-> "1.0", Memory |-> "2g", Swap |-> "", PIDs |-> 512,
     Tmpfs |-> Tmpfs("size=1g,exec,uid=1000,gid=1000",
                     "size=512m,exec,uid=1000,gid=1000",
                     "size=512m,exec,uid=1000,gid=1000")]

GetResourceProfileBad(name) ==
    CASE name = "default" -> ProfileDefault
      [] name = "heavy" -> ProfileHeavy
      [] name = "ram" -> ProfileRam
      [] OTHER -> ProfileLight

\* GetResourceProfile: the switch on the name, with its default branch
GetResourceProfile(name) ==
    CASE name = "light" -> ProfileLight
      [] name = "heavy" -> ProfileHeavy
      [] name = "ram" -> ProfileRam
      [] OTHER -> ProfileDefault

\* the names the switch knows, and the names a caller may pass
KnownProfiles == {"light", "heavy", "ram"}
ProfileNames == KnownProfiles \cup {"default", "unknown-profile-xyz", "", "Light"}

\* a second tracker, in which the leaf name t2 is met twice and first under a-b
DirListTwice ==
    << <<DirWs>>,
       <<DirWs, DirYaks>>,
       <<DirWs, DirYaks, DirTaskA>>,
       <<DirWs, DirYaks, DirTaskA, DirTaskT>>,
       <<DirWs, DirYaks, DirGroup>>,
       <<DirWs, DirYaks, DirGroup, DirTaskT>>,
       <<DirWs, DirSub>> >>

Trees == {DirList, DirListTwice}

\* tracker roots: the tracker, its parent, a directory inside it, none at all
YakPaths ==
    {<<DirWs, DirYaks>>, <<DirWs>>, <<DirWs, DirYaks, DirGroup>>,
     <<<<"t", "m", "p">>, DirYaks>>}

\* slugs: one name or a nested path, on disk or not
TaskSlugs ==
    {<<DirTaskA>>, <<DirTaskT>>, <<DirGroup, DirTaskT>>, <<DirTaskA, DirTaskT>>,
     <<DirGroup>>, <<DirYaks>>, <<<<"z">>>>, <<<<"x">>, DirTaskT>>, <<>>}

NoLookup == [fn |-> "none"]

IdleLookup ==
    /\ lookups = 0
    /\ looked = NoLookup

DetectCall ==
    /\ lookups < MaxLookups
    /\ \E dockerOnPath \in BOOLEAN, dockerPsOk \in BOOLEAN, zellijOnPath \in BOOLEAN :
        looked' = [fn |-> "DetectRuntime", dockerOnPath |-> dockerOnPath,
                   dockerPsOk |-> dockerPsOk, zellijOnPath |-> zellijOnPath,
                   out |-> DetectRuntime(dockerOnPath, dockerPsOk, zellijOnPath)]
    /\ lookups' = lookups + 1
    /\ UNCHANGED <<personaVars, registryVars, killVars, worldVars, commandVars, raceVars, sideVars>>

ResourceProfileCall ==
    /\ lookups < MaxLookups
    /\ \E name \in ProfileNames :
        looked' = [fn |-> "GetResourceProfile", name |-> name,
                   out |-> GetResourceProfile(name)]
    /\ lookups' = lookups + 1
    /\ UNCHANGED <<personaVars, registryVars, killVars, worldVars, commandVars, raceVars, sideVars>>

FindTaskDirCall ==
    /\ lookups < MaxLookups
    /\ \E dirList \in Trees, yakPath \in YakPaths, taskSlug \in TaskSlugs :
        looked' = [fn |-> "findTaskDir", dirList |-> dirList, yakPath |-> yakPath,
                   taskSlug |-> taskSlug,
                   out |-> FindTaskDirIn(dirList, yakPath, taskSlug)]
    /\ lookups' = lookups + 1
    /\ UNCHANGED <<personaVars, registryVars, killVars, worldVars, commandVars, raceVars, sideVars>>

-----------------------------------------------------------------------------
(* Concurrent persona allocation: cmd/spawn.go pickWorkerName run by several
   spawn commands at once.  Nothing locks .last-persona between the ReadFile
   and the WriteFile of one call. *)

Pickers == 1..NumPickers

PickerStart == [pc |-> "read", idx |-> 0]

InitPickRace ==
    /\ cursorFile \in CursorStarts
    /\ managed = TRUE
    /\ startCursor = cursorFile
    /\ picks = <<>>
    /\ pickers = [p \in Pickers |-> PickerStart]

IdlePickers == pickers = <<>>

\* os.ReadFile, strconv.Atoi and the range check
PickRead(p) ==
    /\ pickers[p].pc = "read"
    /\ pickers' = [pickers EXCEPT ![p] = [pc |-> "write", idx |-> CursorIndex(cursorFile)]]
    /\ UNCHANGED <<personaVars, waitVars, tabVars>>
    /\ UNCHANGED <<registryVars, killVars, worldVars, commandVars, raceVars, lookupVars>>

\* os.WriteFile of next, and the return of types.WorkerNames[idx]
PickWrite(p) ==
    /\ pickers[p].pc = "write"
    /\ cursorFile' = Text(Itoa(NextCursor(pickers[p].idx)))
    /\ picks' = Append(picks, WorkerNames[pickers[p].idx + 1])
    /\ pickers' = [pickers EXCEPT ![p].pc = "done"]
    /\ UNCHANGED <<managed, startCursor, waitVars, tabVars>>
    /\ UNCHANGED <<registryVars, killVars, worldVars, commandVars, raceVars, lookupVars>>

PickReads == \E p \in Pickers : PickRead(p)
PickWrites == \E p \in Pickers : PickWrite(p)

-----------------------------------------------------------------------------
(* Wait script: internal/runtime/helpers.go generateWaitScript, the shell
   script of the pane that attaches a shell to the worker's container *)

\* MAX_RETRIES=30
MaxRetries == 30

\* what docker inspect --format='{{.State.Status}}' prints, "missing" when
\* the engine holds no such container and inspect fails
Statuses == {"missing", "created", "running", "exited"}

\* docker inspect ... 2>/dev/null | grep -q "running"
ReportsRunning(status) == status = "running"

SeqHasNextBad(i) == i <= MaxRetries

\* for i in $(seq 1 $MAX_RETRIES): whether another turn follows turn i
SeqHasNext(i) == i < MaxRetries

WaiterStart == [pc |-> "probe", i |-> 1, probes |-> 0, exit |-> 0]

InitWait ==
    /\ waiter = WaiterStart
    /\ engine \in {"missing", "created", "running"}

IdleWait ==
    /\ waiter = [pc |-> "idle"]
    /\ engine = "missing"

\* the if of turn i: a probe that reports running execs docker exec -it,
\* which replaces the script; any other goes on to the sleep
WaitProbe ==
    /\ waiter.pc = "probe"
    /\ waiter' = [waiter EXCEPT !.probes = @ + 1,
                                !.pc = IF ReportsRunning(engine) THEN "attached"
                                       ELSE "sleep"]
    /\ UNCHANGED <<engine, pickers, tabVars>>
    /\ UNCHANGED <<personaVars, registryVars, killVars, worldVars, commandVars,
                   raceVars, lookupVars>>

\* sleep $RETRY_DELAY, then the next turn or, past the last, exit 1
WaitSleep ==
    /\ waiter.pc = "sleep"
    /\ waiter' = IF SeqHasNext(waiter.i)
                 THEN [waiter EXCEPT !.pc = "probe", !.i = @ + 1]
                 ELSE [waiter EXCEPT !.pc = "failed", !.exit = 1]
    /\ UNCHANGED <<engine, pickers, tabVars>>
    /\ UNCHANGED <<personaVars, registryVars, killVars, worldVars, commandVars,
                   raceVars, lookupVars>>

\* the container is created, starts, or exits, whenever the engine gets to it
EngineMoves ==
    /\ \/ engine = "missing" /\ engine' = "created"
       \/ engine = "created" /\ engine' = "running"
       \/ engine = "running" /\ engine' = "exited"
    /\ UNCHANGED <<waiter, pickers, tabVars>>
    /\ UNCHANGED <<personaVars, registryVars, killVars, worldVars, commandVars,
                   raceVars, lookupVars>>

-----------------------------------------------------------------------------
(* Tab closer: internal/runtime/native.go StopNativeWorker without the helper
   script, and findZellijTabIndex, next to whoever else uses the multiplexer *)

\* the worker's display name, and the names of other tabs
WorkerTab == "worker"
OtherTabs == {"x", "y"}

\* a sequence without its element at position i
RemoveAt(seq, i) == SubSeq(seq, 1, i - 1) \o SubSeq(seq, i + 1, Len(seq))

\* the focused tab once tab i is closed: the one that takes its place, or the
\* last one
FocusAfterClose(tabSeq, at, i) ==
    LET left == Len(tabSeq) - 1
        moved == IF at > i THEN at - 1 ELSE at
    IN  IF moved > left THEN left ELSE moved

\* findZellijTabIndex: the 1-based index of the first tab of that name, else -1
TabIndex(tabSeq, name) ==
    IF \E i \in 1..Len(tabSeq) : tabSeq[i] = name
    THEN CHOOSE i \in 1..Len(tabSeq) :
             tabSeq[i] = name /\ \A j \in 1..(i - 1) : tabSeq[j] # name
    ELSE 0 - 1

\* the tabs open when stop runs: the worker's tab at most once
TabStarts ==
    {<<>>, <<"x">>, <<WorkerTab>>, <<"x", WorkerTab>>, <<WorkerTab, "x">>,
     <<"x", WorkerTab, "y">>, <<"x", "y">>}

CloserStart == [pc |-> "query", idx |-> 0, err |-> "none", closed |-> "none",
                found |-> FALSE]

InitTabs ==
    /\ tabList \in TabStarts
    /\ focus \in {i \in 0..MaxTabs : IF tabList = <<>> THEN i = 0
                                     ELSE i \in 1..Len(tabList)}
    /\ closer = CloserStart

IdleTabs ==
    /\ tabList = <<>>
    /\ focus = 0
    /\ closer = [pc |-> "idle"]

\* zellij action query-tab-names, and the search for the name
TabQuery ==
    /\ closer.pc = "query"
    /\ \E queryOk \in BOOLEAN :
        LET tabIndex == TabIndex(tabList, WorkerTab)
        IN  closer' = IF ~queryOk THEN [closer EXCEPT !.pc = "done", !.err = "query"]
                      ELSE IF tabIndex = 0 - 1 THEN [closer EXCEPT !.pc = "done"]
                      ELSE [closer EXCEPT !.pc = "goto", !.idx = tabIndex,
                                          !.found = TRUE]
    /\ UNCHANGED <<tabList, focus, pickers, waitVars>>
    /\ UNCHANGED <<personaVars, registryVars, killVars, worldVars, commandVars,
                   raceVars, lookupVars>>

\* zellij action go-to-tab <index>; with fewer tabs than that the command
\* fails or does nothing
TabGoTo ==
    /\ closer.pc = "goto"
    /\ \/ /\ closer.idx <= Len(tabList)
          /\ focus' = closer.idx
          /\ closer' = [closer EXCEPT !.pc = "close"]
       \/ /\ closer.idx > Len(tabList)
          /\ focus' = focus
          /\ \/ closer' = [closer EXCEPT !.pc = "done", !.err = "goto"]
             \/ closer' = [closer EXCEPT !.pc = "close"]
    /\ UNCHANGED <<tabList, pickers, waitVars>>
    /\ UNCHANGED <<personaVars, registryVars, killVars, worldVars, commandVars,
                   raceVars, lookupVars>>

\* zellij action close-tab: closes the focused tab
TabClose ==
    /\ closer.pc = "close"
    /\ IF focus = 0
       THEN /\ closer' = [closer EXCEPT !.pc = "done", !.err = "close"]
            /\ UNCHANGED <<tabList, focus>>
       ELSE /\ closer' = [closer EXCEPT !.pc = "done", !.closed = tabList[focus]]
            /\ tabList' = RemoveAt(tabList, focus)
            /\ focus' = FocusAfterClose(tabList, focus, focus)
    /\ UNCHANGED <<pickers, waitVars>>
    /\ UNCHANGED <<personaVars, registryVars, killVars, worldVars, commandVars,
                   raceVars, lookupVars>>

\* someone else opens a tab: it goes last and takes the focus
OtherCreates ==
    /\ closer.pc \in {"goto", "close"}
    /\ Len(tabList) < MaxTabs
    /\ \E name \in OtherTabs :
        /\ tabList' = Append(tabList, name)
        /\ focus' = Len(tabList) + 1
    /\ UNCHANGED <<closer, pickers, waitVars>>
    /\ UNCHANGED <<personaVars, registryVars, killVars, worldVars, commandVars,
                   raceVars, lookupVars>>

\* someone else closes a tab, or a pane's command ends and its tab goes away
OtherCloses ==
    /\ closer.pc \in {"goto", "close"}
    /\ \E i \in 1..Len(tabList) :
        /\ tabList' = RemoveAt(tabList, i)
        /\ focus' = FocusAfterClose(tabList, focus, i)
    /\ UNCHANGED <<closer, pickers, waitVars>>
    /\ UNCHANGED <<personaVars, registryVars, killVars, worldVars, commandVars,
                   raceVars, lookupVars>>

\* someone else moves the focus
OtherFocuses ==
    /\ closer.pc \in {"goto", "close"}
    /\ \E i \in 1..Len(tabList) :
        /\ i # focus
        /\ focus' = i
    /\ UNCHANGED <<tabList, closer, pickers, waitVars>>
    /\ UNCHANGED <<personaVars, registryVars, killVars, worldVars, commandVars,
                   raceVars, lookupVars>>

\* nothing of the side processes runs
IdleSide == IdlePickers /\ IdleWait /\ IdleTabs

-----------------------------------------------------------------------------
(* Specifications: one per component, and one of the two commands *)

Range(seq) == {seq[i] : i \in 1..Len(seq)}

\* the parts of the state a specification leaves alone
IdlePersona ==
    /\ cursorFile = Absent
    /\ managed = TRUE
    /\ startCursor = Absent
    /\ picks = <<>>

IdleRegistry ==
    /\ sessionsFile = Absent
    /\ regLast = NoCall
    /\ expect = [id \in Ids |-> Untracked]

IdleKill ==
    /\ pidFile = Absent
    /\ proc = [kind |-> "obedient", alive |-> FALSE, termPending |-> FALSE,
               killPending |-> FALSE]
    /\ clock = 0
    /\ kill = KillIdle
    /\ signals = <<>>

\* a workspace in which nothing has been spawned yet
InitWorld ==
    /\ homes = {}
    /\ assigned = [d \in TaskDirs |-> Absent]
    /\ containers = {}
    /\ tabs = {}
    /\ pidFiles = [w \in Range(WorkerNames) |-> 0]
    /\ procs = {}
    /\ cmds = 0
    /\ last = NoCommand
    /\ prev = NoCommand

InitPersonaSpec == InitPersona /\ IdleRegistry /\ IdleKill /\ InitWorld /\ IdleRace /\ IdleLookup /\ IdleSide
NextPersona == PickRoundRobin \/ PickRandom
SpecPersona == InitPersonaSpec /\ [][NextPersona]_vars

InitRegistrySpec == InitRegistry /\ IdlePersona /\ IdleKill /\ InitWorld /\ IdleRace /\ IdleLookup /\ IdleSide
NextRegistry == RegisterCall \/ UnregisterCall \/ GetCall \/ LoadCall
SpecRegistry == InitRegistrySpec /\ [][NextRegistry]_vars

InitKillSpec == InitKill /\ IdlePersona /\ IdleRegistry /\ InitWorld /\ IdleRace /\ IdleLookup /\ IdleSide
NextKill == KillBegin \/ KillPoll \/ KillWake \/ Tick \/ ProcessDies
SpecKill == InitKillSpec /\ [][NextKill]_vars

\* the terminator where time passes and the call is scheduled: the process
\* that runs stop is not suspended for ever, and its sleep ends
SpecKillLive ==
    /\ InitKillSpec /\ [][NextKill]_vars
    /\ WF_vars(KillPoll) /\ WF_vars(KillWake) /\ WF_vars(Tick)

\* spawn and stop in a fresh workspace whose sessions.json is missing, is
\* damaged or holds the JSON value null
Init ==
    /\ IdlePersona
    /\ sessionsFile \in {Absent, InvalidFile, NullFile}
    /\ regLast = NoCall
    /\ expect = [id \in Ids |-> Untracked]
    /\ IdleKill
    /\ InitWorld
    /\ IdleRace
    /\ IdleLookup /\ IdleSide
Next == RunSpawn \/ RunStop
Spec == Init /\ [][Next]_vars

InitRaceSpec ==
    /\ InitRace
    /\ regLast = NoCall
    /\ expect = [id \in Ids |-> Untracked]
    /\ IdlePersona /\ IdleKill /\ InitWorld /\ IdleLookup /\ IdleSide
NextRace == RaceLoads \/ RaceOpens \/ RaceWrites
SpecRace == InitRaceSpec /\ [][NextRace]_vars

InitLookupSpec ==
    /\ IdleLookup /\ IdleSide
    /\ IdlePersona /\ IdleRegistry /\ IdleKill /\ InitWorld /\ IdleRace
NextLookup == DetectCall \/ ResourceProfileCall \/ FindTaskDirCall
SpecLookup == InitLookupSpec /\ [][NextLookup]_vars

\* the native session the busy workspace starts with: spawned as "a", without
\* a task, for the first persona
BusySession ==
    Session(<<WorkerNames[1]>>, <<>>, WorkerContainerName(NameA), Time(0, TRUE),
            <<"native">>, <<DirWs>>, FormatDisplayName(WorkerNames[1], NameA), <<>>,
            PidFilePath(WorkerNames[1]))

\* spawn and stop in a workspace where a full round of personas has been handed
\* out: the first spawn launched the native worker "a", which still runs as
\* process 9, the next N - 1 spawns failed to create a home directory, and
\* the cursor is back at the first persona
InitBusy ==
    /\ cursorFile = Text(Itoa(0))
    /\ managed = TRUE
    /\ startCursor = Absent
    /\ picks = WorkerNames
    /\ sessionsFile = Register(Absent, NameA, BusySession, FALSE).file
    /\ regLast = NoCall
    /\ expect = [id \in Ids |-> Untracked]
    /\ IdleKill
    /\ homes = {WorkerNames[1]}
    /\ assigned = [d \in TaskDirs |-> Absent]
    /\ containers = {}
    /\ tabs = {FormatDisplayName(WorkerNames[1], NameA)}
    /\ pidFiles = [w \in Range(WorkerNames) |-> IF w = WorkerNames[1] THEN 9 ELSE 0]
    /\ procs = {9}
    /\ cmds = 0
    /\ last = NoCommand
    /\ prev = NoCommand
    /\ IdleRace
    /\ IdleLookup /\ IdleSide
NextBusy == RunSpawn \/ RunStop
SpecBusy == InitBusy /\ [][NextBusy]_vars

\* the rest of the state while only the persona allocator, the wait script or
\* the tab closer runs
IdleMain ==
    /\ regLast = NoCall
    /\ expect = [id \in Ids |-> Untracked]
    /\ sessionsFile = Absent
    /\ IdleKill /\ InitWorld /\ IdleRace /\ IdleLookup

InitPickRaceSpec == InitPickRace /\ IdleWait /\ IdleTabs /\ IdleMain
NextPickRace == PickReads \/ PickWrites
SpecPickRace == InitPickRaceSpec /\ [][NextPickRace]_vars

InitWaitSpec == InitWait /\ IdlePersona /\ IdlePickers /\ IdleTabs /\ IdleMain
NextWait == WaitProbe \/ WaitSleep \/ EngineMoves
SpecWait == InitWaitSpec /\ [][NextWait]_vars

InitTabsSpec == InitTabs /\ IdlePersona /\ IdlePickers /\ IdleWait /\ IdleMain
NextTabs == TabQuery \/ TabGoTo \/ TabClose \/ OtherCreates \/ OtherCloses \/ OtherFocuses
SpecTabs == InitTabsSpec /\ [][NextTabs]_vars

-----------------------------------------------------------------------------
(* Claims *)

SameFields(a, b) ==
    /\ a.Worker = b.Worker /\ a.Task = b.Task /\ a.Container = b.Container
    /\ a.SpawnedAt.wall = b.SpawnedAt.wall
    /\ a.Runtime = b.Runtime /\ a.CWD = b.CWD /\ a.WorkerName = b.WorkerName
    /\ a.DisplayName = b.DisplayName /\ a.ZellijSession = b.ZellijSession
    /\ a.PidFile = b.PidFile

\* C2: a Get of an id whose last registry change was a successful Register
\* returns, without error, a Session with the fields that Register was given
\* (SpawnedAt as the same instant), whatever was done to other ids since.
C2_RegisterThenGet ==
    (regLast.op = "Get" /\ expect[regLast.id].tag = "registered") =>
        /\ regLast.err = "none"
        /\ SameFields(regLast.session, expect[regLast.id].s)

C2_Witness ==
    /\ regLast.op = "Get"
    /\ expect[regLast.id].tag = "registered"
    /\ \E other \in Ids \ {regLast.id} : expect[other].tag = "registered"
    /\ expect[regLast.id].s.SpawnedAt.mono

\* C3: a Get of an id that was registered and then successfully unregistered
\* returns the not-found error.
C3_UnregisterThenGet ==
    (regLast.op = "Get" /\ expect[regLast.id].tag = "unregistered") =>
        regLast.err = "notfound"

C3_Witness == regLast.op = "Get" /\ expect[regLast.id].tag = "unregistered"

\* C4: Load of a missing sessions.json returns an empty, non-nil map and no
\* error; Load of a file that is no JSON returns an error.
C4_Load ==
    regLast.op = "Load" =>
        /\ sessionsFile.kind = "absent" =>
               (regLast.err = "none" /\ regLast.val = NoSessions /\ ~regLast.isNil)
        /\ sessionsFile.kind \in {"invalid", "empty"} => regLast.err # "none"

C4_WitnessAbsent == regLast.op = "Load" /\ sessionsFile.kind = "absent"
C4_Witness == regLast.op = "Load" /\ sessionsFile.kind = "invalid"

\* the last command was a sandboxed spawn of exactly one task that launched
SandboxedSpawnOfOne ==
    /\ last.cmd = "spawn"
    /\ last.runtime = "sandboxed"
    /\ Len(last.in.tasks) = 1
    /\ last.launched

\* the directory of the one task of the last spawn
SpawnTaskDir == FindTaskDir(last.yakPath, SlugifyTaskPath(last.in.tasks[1]))

\* what C5 promises of the last spawn
SpawnOutcome ==
    LET got == Get(sessionsFile, last.in.name)
    IN  /\ got.err = "none"
        /\ got.session.Runtime = <<"sandboxed">>
        /\ got.session.Container = ContainerNamePrefix \o Sanitize(last.in.name)
        /\ SpawnTaskDir.found
        /\ assigned[SpawnTaskDir.path] = Text(last.persona)

SpawnThenGracefulStop ==
    /\ last.cmd = "stop" /\ prev.cmd = "spawn"
    /\ last.in.name = prev.in.name
    /\ last.in.cwd = prev.in.cwd
    /\ ~last.in.force /\ ~last.in.dryRun /\ last.in.fault = "none"
    /\ last.err = "none"
    /\ prev.err = "none" /\ prev.in.fault = "none" /\ prev.registerErr = "none"
    /\ Len(prev.in.tasks) = 1
    /\ FindTaskDir(prev.yakPath, SlugifyTaskPath(prev.in.tasks[1])).found

\* C6 as stated: after a successful spawn of a session with one task, a stop
\* of it without --force and without --dry-run leaves the task's assigned-to
\* file absent and no Session registered under the name.
C6_Original ==
    SpawnThenGracefulStop =>
        /\ assigned[FindTaskDir(prev.yakPath, SlugifyTaskPath(prev.in.tasks[1])).path]
               = Absent
        /\ Get(sessionsFile, last.in.name).err = "notfound"

\* a stop step that found its session in the registry
StopStep == cmds' # cmds /\ last'.cmd = "stop" /\ last'.source = "registry"

SpawnThenStop ==
    /\ last.cmd = "stop" /\ prev.cmd = "spawn"
    /\ last.in.name = prev.in.name
    /\ prev.launched /\ prev.registerErr = "none"
    /\ last.source = "registry"
    /\ ~last.in.dryRun

C9_KillDeadProcess ==
    (kill.pc = "done" /\ kill.pidOk /\ ~kill.aliveAtStart) =>
        /\ kill.err = "none"
        /\ pidFile = Absent
        /\ signals = <<>>

C9_Witness == kill.pc = "done" /\ kill.pidOk /\ ~kill.aliveAtStart

\* C10: a Kill of a live process that ignores SIGTERM but dies on SIGKILL
\* returns success only when at least the timeout has passed since it started
\* waiting, and the PID file is gone when it returns.
C10_KillWaitsForTimeout ==
    (/\ kill.pc = "done" /\ kill.err = "none"
     /\ kill.pidOk /\ kill.aliveAtStart /\ proc.kind = "stubborn") =>
        /\ kill.endAt - kill.startWait >= kill.timeout
        /\ pidFile = Absent

C10_Witness ==
    /\ kill.pc = "done" /\ kill.err = "none"
    /\ kill.pidOk /\ kill.aliveAtStart /\ proc.kind = "stubborn"
    /\ kill.timeout >= 2
    /\ \E i \in 1..Len(signals) : signals[i].sig = "KILL"
    /\ ~proc.alive

\* a spawn step whose launch was attempted and failed: a script file could not
\* be written or the tab could not be opened
FailedLaunchStep ==
    /\ cmds' # cmds /\ last'.cmd = "spawn"
    /\ last'.in.fault \in {"scripts", "tab"}
    /\ last'.persona # <<>>

\* C11: a spawn whose launch step fails returns an error, registers no
\* Session and writes no assigned-to file: sessions.json and every
\* assignment file are as before.
C11_FailedLaunchLeavesNoTrace ==
    [][FailedLaunchStep =>
          /\ last'.err # "none"
          /\ sessionsFile' = sessionsFile
          /\ assigned' = assigned
          /\ tabs' = tabs /\ containers' = containers /\ procs' = procs]_vars

C11_Witness ==
    /\ last.cmd = "spawn" /\ last.in.fault = "tab" /\ last.err = "launch"
    /\ last.in.tasks = <<TaskAB>>
    /\ Get(sessionsFile, last.in.name).err = "notfound"
    /\ assigned[<<DirWs, DirYaks, DirTaskA>>] = Absent

AllReturned == racers # <<>> /\ \A r \in Racers : racers[r].pc = "done"

\* whether the registry on disk shows what racer r did to its id
Reflects(r) ==
    LET l == Load(sessionsFile)
    IN  IF racers[r].op = "Register" THEN IdPool[r] \in DOMAIN l.val
        ELSE IdPool[r] \notin DOMAIN l.val

\* C13: concurrent Register/Unregister calls on different ids are not merged:
\* when all have returned and sessions.json is one whole JSON text, it is
\* exactly the file the last writer saved, built from what that writer had
\* loaded, so an update another call made in between is lost.
C13_LastWriterWins ==
    (AllReturned /\ lastWriter # 0 /\ sessionsFile.kind = "json") =>
        sessionsFile = racers[lastWriter].data

C13_Witness ==
    /\ AllReturned
    /\ \A r \in Racers : racers[r].err = "none"
    /\ sessionsFile.kind = "json"
    /\ sessionsFile = racers[lastWriter].data
    /\ \E r \in Racers : r # lastWriter /\ ~Reflects(r)

\* C14 as stated: when concurrent Register calls for distinct ids have all
\* returned, each returned without error and the registry loads without error
\* and is not empty.
C14_Original ==
    (AllReturned /\ \A r \in Racers : racers[r].op = "Register") =>
        /\ \A r \in Racers : racers[r].err = "none"
        /\ Load(sessionsFile).err = "none"
        /\ DOMAIN Load(sessionsFile).val # {}

\* a spawn step that registered its session
RegisteringStep == cmds' # cmds /\ last'.cmd = "spawn" /\ last'.registerErr = "none"

\* C15: the registry holds one Session per session id: a spawn that registers
\* under an id leaves exactly the ids that were registered before plus that
\* id, the record under the id is the new one, and the others are untouched.
C15_OneSessionPerId ==
    [][RegisteringStep =>
          LET old == Load(sessionsFile).val
              new == Load(sessionsFile').val
              id == last'.in.name
          IN  /\ DOMAIN new = DOMAIN old \cup {id}
              /\ new[id].SpawnedAt.wall = cmds'
              /\ new[id].Worker = last'.persona
              /\ \A k \in DOMAIN old \ {id} : new[k] = old[k]]_vars

C15_Witness ==
    /\ last.cmd = "spawn" /\ prev.cmd = "spawn"
    /\ last.in.name = prev.in.name
    /\ last.registerErr = "none" /\ prev.registerErr = "none"
    /\ DOMAIN Load(sessionsFile).val = {last.in.name}
    /\ Load(sessionsFile).val[last.in.name].Worker = last.persona
    /\ last.persona # prev.persona

\* an Unregister step on a loadable registry that does not hold the id, with
\* the file system accepting the write
UnregisterAbsentStep ==
    /\ regLast'.op = "Unregister"
    /\ Load(sessionsFile).err = "none"
    /\ regLast'.id \notin DOMAIN Load(sessionsFile).val
    /\ regLast'.err # "save"

\* C16: Unregister of an id that is not registered returns no error and
\* leaves every registered Session as it was.
C16_UnregisterAbsentId ==
    [][UnregisterAbsentStep =>
          /\ regLast'.err = "none"
          /\ Load(sessionsFile').err = "none"
          /\ Load(sessionsFile').val = Load(sessionsFile).val]_vars

C16_Witness ==
    /\ regLast.op = "Unregister" /\ ~regLast.was
    /\ regLast.err = "none"
    /\ DOMAIN Load(sessionsFile).val # {}

\* a stop step for a name that Get does not find and that no container bears
StopUnknownStep ==
    /\ cmds' # cmds /\ last'.cmd = "stop"
    /\ Get(sessionsFile, last'.in.name).err # "none"
    /\ ContainerNamePrefix \o last'.in.name \notin containers

C18_Original ==
    (last.cmd = "stop" /\ last.source = "registry" /\ ~last.in.dryRun
     /\ last.session.Runtime = <<"sandboxed">>) =>
        /\ last.containerErr = "notfound" => last.err # "none"
        /\ last.containerErr \in {"stop", "remove"} => last.err = "none"

\* C19 as stated: after the spawn of a session with one task, a stop of it
\* with --force leaves the session's assigned-to file in place, and a stop
\* without --force, nothing failing, leaves that file deleted.
C19_Original ==
    (/\ last.cmd = "stop" /\ prev.cmd = "spawn"
     /\ last.in.name = prev.in.name
     /\ last.source = "registry" /\ last.in.fault = "none"
     /\ prev.err = "none" /\ prev.in.fault = "none" /\ prev.registerErr = "none"
     /\ Len(prev.in.tasks) = 1
     /\ FindTaskDir(prev.yakPath, SlugifyTaskPath(prev.in.tasks[1])).found) =>
        LET file == assigned[FindTaskDir(prev.yakPath,
                                         SlugifyTaskPath(prev.in.tasks[1])).path]
        IN  /\ last.err = "none"
            /\ IF last.in.force THEN file = Text(prev.persona) ELSE file = Absent

\* a stop step with --dry-run
DryRunStep == cmds' # cmds /\ last'.cmd = "stop" /\ last'.in.dryRun

\* C20: stop with --dry-run tears nothing down and unregisters nothing: tabs,
\* containers, worker processes and PID files are as before (no signal was
\* sent), and sessions.json is as before, the Session still registered.
C20_DryRunTearsNothingDown ==
    [][DryRunStep =>
          /\ tabs' = tabs /\ containers' = containers
          /\ procs' = procs /\ pidFiles' = pidFiles
          /\ sessionsFile' = sessionsFile]_vars

C20_Witness ==
    /\ last.cmd = "stop" /\ last.in.dryRun /\ last.err = "none"
    /\ last.source = "registry"
    /\ last.session.Runtime = <<"native">>
    /\ pidFiles[last.session.Worker[1]] \in procs
    /\ last.session.DisplayName \in tabs
    /\ Get(sessionsFile, last.in.name).err = "none"

\* a spawn step with --runtime auto where DetectRuntime returns unknown
NoRuntimeStep ==
    /\ cmds' # cmds /\ last'.cmd = "spawn"
    /\ last'.in.runtime = "auto" /\ last'.in.detected = "unknown"

\* C21: a spawn with runtime auto where the detector returns unknown fails
\* before it allocates a persona: the persona cursor, the home directories, the
\* registry and the assignment files are all as they were.
C21_NoRuntimeChangesNothing ==
    [][NoRuntimeStep =>
          /\ last'.err # "none"
          /\ last'.persona = <<>>
          /\ cursorFile' = cursorFile /\ picks' = picks
          /\ homes' = homes
          /\ sessionsFile' = sessionsFile
          /\ assigned' = assigned]_vars

C21_Witness ==
    /\ last.cmd = "spawn" /\ last.in.runtime = "auto" /\ last.in.detected = "unknown"
    /\ last.err = "noruntime"
    /\ prev.cmd = "spawn" /\ prev.err = "none" /\ prev.registerErr = "none"
    /\ cursorFile = Text(Itoa(1))
    /\ homes = {WorkerNames[1]}

\* C22: DetectRuntime returns sandboxed exactly when docker is on the search
\* path and docker ps succeeds; otherwise native exactly when zellij is on the
\* search path; otherwise unknown.
C22_DetectRuntime ==
    looked.fn = "DetectRuntime" =>
        /\ looked.out = "sandboxed" <=> (looked.dockerOnPath /\ looked.dockerPsOk)
        /\ looked.out = "native" <=>
               (~(looked.dockerOnPath /\ looked.dockerPsOk) /\ looked.zellijOnPath)
        /\ looked.out = "unknown" <=>
               (~(looked.dockerOnPath /\ looked.dockerPsOk) /\ ~looked.zellijOnPath)

C22_Witness ==
    /\ looked.fn = "DetectRuntime"
    /\ looked.dockerOnPath /\ ~looked.dockerPsOk /\ looked.zellijOnPath
    /\ looked.out = "native"

\* what a findTaskDir call was asked, and the directories whose leaf name is
\* the slug's leaf name, as positions in the walk of the whole tree
DirectPath == looked.yakPath \o looked.taskSlug
DirectIsDir == \E i \in 1..Len(looked.dirList) : looked.dirList[i] = DirectPath
LeafMatches(withRoot) ==
    {i \in 1..Len(looked.dirList) :
        /\ IsPrefix(looked.yakPath, looked.dirList[i])
        /\ withRoot \/ looked.dirList[i] # looked.yakPath
        /\ looked.dirList[i][Len(looked.dirList[i])] = Base(looked.taskSlug)}
FirstOf(positions) == CHOOSE i \in positions : \A j \in positions : i <= j

TaskDirResolution(withRoot) ==
    looked.fn = "findTaskDir" =>
        IF DirectIsDir THEN looked.out = Found(DirectPath)
        ELSE IF LeafMatches(withRoot) = {}
             THEN ~looked.out.found /\ looked.out.err = "no directory matching"
        ELSE looked.out = Found(looked.dirList[FirstOf(LeafMatches(withRoot))])

\* C23 as stated: findTaskDir returns the direct join of the tracker root and
\* the slug when that is a directory; otherwise the first directory in walk
\* order whose leaf name equals the slug's leaf name; and fails with "no
\* directory matching" when there is no such directory.
C23_Original == TaskDirResolution(TRUE)

\* C23: findTaskDir returns the direct join of the tracker root and the slug
\* when that is a directory, whatever a walk would meet first; otherwise the
\* first directory in walk order, other than the tracker root itself, whose
\* leaf name equals the slug's leaf name; and fails with "no directory
\* matching" when there is no such directory.
C23_TaskDirResolution == TaskDirResolution(FALSE)

\* the direct join g/t2 is returned though the walk meets a-b/t2 first
C23_Witness ==
    /\ looked.fn = "findTaskDir"
    /\ looked.dirList = DirListTwice
    /\ looked.yakPath = <<DirWs, DirYaks>>
    /\ looked.taskSlug = <<DirGroup, DirTaskT>>
    /\ looked.out = Found(<<DirWs, DirYaks, DirGroup, DirTaskT>>)

\* C24: GetResourceProfile of a name it does not recognize returns, without
\* error, a profile equal to the one it returns for "default".
C24_UnknownProfileIsDefault ==
    (looked.fn = "GetResourceProfile" /\ looked.name \notin KnownProfiles) =>
        /\ looked.out = GetResourceProfile("default")
        /\ looked.out.Name = "default"

C24_Witness ==
    /\ looked.fn = "GetResourceProfile"
    /\ looked.name = "unknown-profile-xyz"
    /\ looked.out.Name = "default" /\ looked.out.PIDs = 512

\* the step in which Kill reads a PID file that is missing or whose trimmed
\* content is no decimal integer
UnreadablePidStep ==
    /\ kill.pc = "idle" /\ kill' # kill
    /\ \/ pidFile.kind # "text"
       \/ ~AtoiOk(TrimSpace(pidFile.text))

\* C25: if the PID file cannot be read or its content does not parse as a
\* PID, Kill returns an error, sends no signal, and leaves the PID file as it
\* is.
C25_UnreadablePidFile ==
    [][UnreadablePidStep =>
          /\ kill'.pc = "done" /\ kill'.err \in {"read", "parse"}
          /\ signals' = signals
          /\ pidFile' = pidFile]_vars

\* a PID file that holds no number, next to a live process
C25_Witness ==
    /\ kill.pc = "done" /\ kill.err = "parse"
    /\ pidFile = Text(<<"x">>)
    /\ proc.alive /\ signals = <<>>

\* SIGTERM is the first signal, SIGKILL the last and sent once
SignalOrder ==
    \A i \in 1..Len(signals) :
        signals[i].sig = "KILL" => (i = Len(signals) /\ i > 1 /\ signals[1].sig = "TERM")

\* a turn of the poll loop, before the deadline, that finds the process dead
ProbeFindsDeadStep ==
    /\ kill.pc = "loop" /\ kill' # kill
    /\ clock < kill.deadline /\ ~proc.alive

\* a step of Kill that sends SIGKILL
SendsKillStep ==
    /\ signals' # signals
    /\ signals'[Len(signals')].sig = "KILL"

\* C26: Kill sends SIGTERM before any SIGKILL; a probe that finds the
\* process dead makes Kill delete the PID file and return success at once,
\* without SIGKILL; and SIGKILL is sent only from the poll loop once the
\* deadline is reached, every probe before having found the process alive.
C26_TermThenKill ==
    /\ []SignalOrder
    /\ [][ProbeFindsDeadStep =>
             /\ kill'.pc = "done" /\ kill'.err = "none"
             /\ pidFile' = Absent
             /\ signals' = signals]_vars
    /\ [][SendsKillStep =>
             /\ kill.pc = "loop" /\ clock >= kill.deadline
             /\ kill.aliveAtStart]_vars

\* the process died of SIGTERM during the wait and a later probe saw it
C26_Witness ==
    /\ kill.pc = "done" /\ kill.err = "none"
    /\ kill.aliveAtStart /\ ~proc.alive
    /\ kill.endAt > kill.startWait /\ kill.endAt < kill.deadline
    /\ Len(signals) = 1 /\ signals[1].sig = "TERM"
    /\ pidFile = Absent

\* the step Kill takes from the poll loop once the deadline is reached
TimedOutStep ==
    /\ kill.pc = "loop" /\ kill' # kill
    /\ clock >= kill.deadline

\* C29: once the deadline is reached Kill sends SIGKILL, deletes the PID file
\* and returns success whether or not the process is alive, without another
\* probe; the process may still be alive when Kill has returned.
C29_KillAfterTimeout ==
    [][TimedOutStep =>
          /\ Len(signals') = Len(signals) + 1
          /\ signals'[Len(signals')].sig = "KILL"
          /\ pidFile' = Absent
          /\ kill'.pc = "done" /\ kill'.err = "none"
          /\ proc'.alive = proc.alive]_vars

\* Kill has returned success, the PID file is gone, the process still lives
C29_Witness ==
    /\ kill.pc = "done" /\ kill.err = "none"
    /\ pidFile = Absent
    /\ proc.alive /\ proc.killPending
    /\ signals[Len(signals)].sig = "KILL"

\* the registered sessions, and those of them that are native
Registered == Load(sessionsFile).val
RegisteredNative == {id \in DOMAIN Registered : Registered[id].Runtime = <<"native">>}

\* C27 as stated: no two registered native Sessions record the same PID-file
\* path, and a stop of one native session leaves running the process that was
\* launched for another session still registered.
C27_Original ==
    /\ \A a \in RegisteredNative, b \in RegisteredNative :
           a # b => Registered[a].PidFile # Registered[b].PidFile
    /\ (/\ last.cmd = "stop" /\ prev.cmd = "spawn"
        /\ prev.pid # 0
        /\ prev.in.name # last.in.name
        /\ prev.in.name \in RegisteredNative) => prev.pid \in procs

\* C28 as stated: after a sandboxed spawn, the container name recorded in the
\* Session, the name the run script gives the container, and the name under
\* which a stop of the session looks the container up, stops and removes it
\* are the same, whatever the session name.
C28_Original ==
    (/\ last.cmd = "spawn" /\ last.runtime = "sandboxed"
     /\ last.launched /\ last.registerErr = "none") =>
        LET recorded == Get(sessionsFile, last.in.name).session.Container
        IN  /\ recorded = RunScriptContainerName(last.in.name)
            /\ StopSandboxedWorker({recorded}, last.in.name, "none").held = {}

\* C30 as stated: the assigned-to file a graceful stop deletes for a session
\* is the one the spawn of the session wrote for its recorded task, wherever
\* the tracker was found and however the task directory was.
C30_Original ==
    (/\ last.cmd = "stop" /\ prev.cmd = "spawn"
     /\ last.in.name = prev.in.name
     /\ last.source = "registry" /\ ~last.in.force
     /\ prev.err = "none" /\ prev.in.fault = "none" /\ prev.registerErr = "none"
     /\ prev.in.tasks # <<>>
     /\ FindTaskDir(prev.yakPath, SlugifyTaskPath(FirstTask(prev.in.tasks))).found) =>
        last.target =
            FindTaskDir(prev.yakPath, SlugifyTaskPath(FirstTask(prev.in.tasks))).path

\* two concurrent calls that have both returned after reading the same cursor
ReadTheSame(p, q) ==
    /\ p # q
    /\ pickers[p].pc = "done" /\ pickers[q].pc = "done"
    /\ pickers[p].idx = pickers[q].idx

\* C35: two pickWorkerName calls that run concurrently in one workspace can
\* both read the same cursor value; they are then given the same persona, and
\* when they are the only calls the cursor ends one position past that value.
C35_SameCursorSamePersona ==
    \A p \in Pickers, q \in Pickers :
        ReadTheSame(p, q) =>
            /\ \E i \in 1..Len(picks), j \in 1..Len(picks) :
                   /\ i # j
                   /\ picks[i] = WorkerNames[pickers[p].idx + 1]
                   /\ picks[j] = WorkerNames[pickers[p].idx + 1]
            /\ (\A r \in Pickers : pickers[r].pc = "done" /\ pickers[r].idx = pickers[p].idx)
                   => cursorFile = Text(Itoa((pickers[p].idx + 1) % N))

\* both calls read cursor 2, both return the third persona, the cursor is 3
C35_Witness ==
    /\ startCursor = Text(<<"2">>)
    /\ \A p \in Pickers : pickers[p].pc = "done" /\ pickers[p].idx = 2
    /\ \A i \in 1..Len(picks) : picks[i] = WorkerNames[3]
    /\ Len(picks) = NumPickers
    /\ cursorFile = Text(<<"3">>)

\* a turn of the wait script's loop: one probe of the container status
WaitProbeStep == waiter.pc = "probe" /\ waiter' # waiter

\* C39: the wait script probes the container status at most 30 times; a probe
\* that reports the container running attaches the shell at once, every other
\* probe does not; and the script exits with a non-zero status once 30 probes
\* have failed to report it running.
C39_WaitScript ==
    /\ [](waiter.probes <= MaxRetries)
    /\ [](waiter.pc = "failed" => (waiter.exit # 0 /\ waiter.probes = MaxRetries))
    /\ [][WaitProbeStep => (waiter'.pc = "attached" <=> engine = "running")]_vars
    /\ [][(waiter.pc = "sleep" /\ waiter' # waiter /\ waiter.probes = MaxRetries)
              => waiter'.pc = "failed"]_vars

\* the container came up just in time for the last probe
C39_Witness ==
    /\ waiter.pc = "attached"
    /\ waiter.probes = MaxRetries /\ waiter.i = MaxRetries

\* C40 as stated: StopNativeWorker closes no tab other than the one named as
\* the worker's display name, whatever others do to the tabs between its
\* steps, and closes nothing and returns success when no tab has that name.
C40_Original ==
    /\ closer.closed \in {"none", WorkerTab}
    /\ (closer.pc = "done" /\ closer.err = "none" /\ ~closer.found) =>
           closer.closed = "none"

\* a cursor file that is missing, holds no integer, or holds one outside 0..N-1
UnusableCursor(file) ==
    \/ file.kind = "absent"
    \/ ~AtoiOk(TrimSpace(file.text))
    \/ Atoi(TrimSpace(file.text)) < 0
    \/ Atoi(TrimSpace(file.text)) >= N

C34_KillTerminates ==
    /\ (kill.pc \in {"loop", "sleep"}) ~> (kill.pc = "done")
    /\ [](kill.pc = "sleep" => kill.wake < kill.deadline + PollInterval)
    /\ [][TimedOutStep => kill'.pc = "done"]_vars

\* a process that ignores SIGTERM, waited for during the longest timeout
C34_Witness ==
    /\ kill.pc = "done" /\ kill.err = "none"
    /\ proc.kind = "stubborn" /\ kill.aliveAtStart
    /\ kill.timeout = MaxTimeout
    /\ kill.endAt >= kill.deadline /\ kill.endAt < kill.deadline + PollInterval
    /\ Len(signals) = 2

-----------------------------------------------------------------------------
(* Assignment files over spawn and stop: runSpawn's loop over spawnYaks and
   runStop's removal *)

\* the directory findTaskDir gives for the i-th task of a spawn record
TaskDirOf(cmd, i) == FindTaskDir(cmd.yakPath, SlugifyTaskPath(cmd.in.tasks[i]))

\* the last spawn launched with a task whose directory is not found or whose
\* assigned-to file cannot be written
SpawnWithFailingTask ==
    /\ last.cmd = "spawn" /\ last.launched
    /\ \E i \in 1..Len(last.in.tasks) :
          \/ ~TaskDirOf(last, i).found
          \/ TaskDirOf(last, i).path \in Unwritable(last.in.fault)

\* every task of the last spawn whose directory is found and writable has its
\* assigned-to file holding the persona
RemainingWritten ==
    \A i \in 1..Len(last.in.tasks) :
        (TaskDirOf(last, i).found
         /\ TaskDirOf(last, i).path \notin Unwritable(last.in.fault))
            => assigned[TaskDirOf(last, i).path] = Text(last.persona)

AssignLoopGoesOn ==
    (SpawnWithFailingTask /\ last.err # "panic")
        => (last.err = "none" /\ RemainingWritten)

\* a spawn of two tasks that reached the loop, could not write the file of
\* the first and wrote that of the second
AssignLoopWentOn ==
    /\ SpawnWithFailingTask /\ last.err = "none"
    /\ last.in.tasks = <<TaskAB, TaskT>> /\ last.in.fault = "write1"
    /\ assigned[<<DirWs, DirYaks, DirTaskA>>] = Absent
    /\ assigned[TaskDirOf(last, 2).path] = Text(last.persona)

\* the last two commands were a spawn that succeeded in full and, run from the
\* same directory, a faultless stop of the same session without --force and
\* without --dry-run
SpawnThenGracefulStopOfAll ==
    /\ last.cmd = "stop" /\ prev.cmd = "spawn"
    /\ last.in.name = prev.in.name
    /\ last.in.cwd = prev.in.cwd
    /\ ~last.in.force /\ ~last.in.dryRun /\ last.in.fault = "none"
    /\ last.err = "none" /\ last.source = "registry"
    /\ prev.err = "none" /\ prev.in.fault = "none" /\ prev.registerErr = "none"

\* C31 as stated: every assigned-to file created by a spawn is removed by the
\* graceful stop of that session, also when the spawn was given more than one
\* task.
C31_Original ==
    SpawnThenGracefulStopOfAll =>
        \A i \in 1..Len(prev.in.tasks) :
            TaskDirOf(prev, i).found => assigned[TaskDirOf(prev, i).path] = Absent

-----------------------------------------------------------------------------
(* The order of runStop's teardown and its Unregister *)

\* the worker of the stopped session is still there: its container is held,
\* or the process of its PID file runs
WorkerStillRuns ==
    \/ /\ last.session.Runtime = <<"sandboxed">>
       /\ last.session.Container \in containers
    \/ /\ last.session.Runtime = <<"native">>
       /\ last.session.Worker # <<>>
       /\ pidFiles[last.session.Worker[1]] \in procs

\* C32 as stated: stop never leaves a still-running worker without a Session:
\* after a non-dry-run stop that unregistered the Session, the worker's
\* container or process tree is gone.
C32_Original ==
    (/\ last.cmd = "stop" /\ last.source = "registry" /\ ~last.in.dryRun
     /\ last.unregisterErr = "none"
     /\ Get(sessionsFile, last.in.name).err = "notfound") => ~WorkerStillRuns

\* the last command was a non-dry-run stop of a native Session that records a
\* PID file
NativeStopWithPidFile ==
    /\ last.cmd = "stop" /\ last.source = "registry" /\ ~last.in.dryRun
    /\ last.session.Runtime = <<"native">>
    /\ last.session.PidFile # <<>>

\* C33: a non-dry-run stop of a native Session with a recorded PID file calls
\* the Process-Tree Terminator, then the tab close, then Unregister, in this
\* order and whatever the terminator returned: the tab is closed unless the
\* close itself fails, and the Session is gone once Unregister succeeds.
C33_KillThenTabThenUnregister ==
    NativeStopWithPidFile =>
        /\ last.calls = <<"kill", "tab", "unregister">>
        /\ last.killErr # "skipped"
        /\ last.in.fault # "tab" => last.session.DisplayName \notin tabs
        /\ last.unregisterErr = "none"
               => Get(sessionsFile, last.in.name).err = "notfound"

C33_Witness ==
    /\ NativeStopWithPidFile
    /\ last.killErr = "read"
    /\ last.calls = <<"kill", "tab", "unregister">>
    /\ last.unregisterErr = "none"
    /\ Get(sessionsFile, last.in.name).err = "notfound"

\* C37 as stated: stop with --dry-run and without --force leaves the
\* session's assigned-to file in place: no assigned-to file changes.
C37_Original ==
    [][(DryRunStep /\ ~last'.in.force) => assigned' = assigned]_vars


=============================================================================
